---- MODULE Spec2Model ----
(***************************************************************************)
(* Layered configuration engine of decky-lossless-scaling-vk:              *)
(*   py_modules/lsfg_vk/config_schema.py   schema, TOML codec, script      *)
(*                                          parser, merge                   *)
(*   py_modules/lsfg_vk/configuration.py   ConfigurationService operations *)
(*                                                                         *)
(* Text is modelled line by line.  A line of the structured file is a      *)
(* tuple of strings that keeps exactly what the parsers look at:           *)
(*   <<"blank">>                   an empty line                           *)
(*   <<"comment", text>>           a '#' line that is not the flag line    *)
(*   <<"pgp", form, value>>        "# per_game_profiles = value" (form     *)
(*                                 "commented") or "per_game_profiles =    *)
(*                                 value" (form "plain")                   *)
(*   <<"header", h>>               a bracketed section header              *)
(*   <<"kv", key, quote, text>>    key = value; quote is "dq" ("text"),    *)
(*                                 "sq" ('text') or "bare" (text)          *)
(* A Python value is a record [t, n, s]: t the run-time type, n the number *)
(* (bool as 0/1, float in tenths), s the string.                           *)
(***************************************************************************)
EXTENDS Integers, Sequences, FiniteSets, TLC

VARIABLES toml, script, resp, call, calls, pure

vars == <<toml, script, resp, call, calls, pure>>

----------------------------------------------------------------------------
(* Python values *)

PInt(i) == [t |-> "int", n |-> i, s |-> ""]
PFloat(tenths) == [t |-> "float", n |-> tenths, s |-> ""]
PBool(b) == [t |-> "bool", n |-> IF b THEN 1 ELSE 0, s |-> ""]
PStr(x) == [t |-> "str", n |-> 0, s |-> x]
PNone == [t |-> "none", n |-> 0, s |-> ""]

\* Decimal texts of the integers the model uses; the first text of a number
\* is the one str() produces, the others are spellings int() also accepts.
IntTexts ==
    { <<"-1", -1>>, <<"0", 0>>, <<"1", 1>>, <<"2", 2>>, <<"3", 3>>,
      <<"4", 4>>, <<"60", 60>>, <<"90", 90>> }

IntAliases == { <<"02", 2>>, <<"+3", 3>> }

\* Texts of the floats the model uses, in tenths; the aliases are spellings
\* float() accepts and repr() never produces.
FloatTexts ==
    { <<"-1.0", -10>>, <<"0.0", 0>>, <<"0.5", 5>>, <<"0.8", 8>>, <<"1.0", 10>>,
      <<"2.0", 20>>, <<"3.0", 30>>, <<"4.0", 40>>, <<"60.0", 600>>,
      <<"90.0", 900>> }

FloatAliases == { <<"0.50", 5>>, <<".8", 8>> }

IntStr(i) == (CHOOSE p \in IntTexts : p[2] = i)[1]

FloatStr(f) == (CHOOSE p \in FloatTexts : p[2] = f)[1]

\* int(text): the parsed integer, or a ValueError
IsIntText(x) == \E p \in IntTexts \cup IntAliases : p[1] = x

ParseInt(x) == (CHOOSE p \in IntTexts \cup IntAliases : p[1] = x)[2]

\* float(text): integers' texts are floats' texts too
IsFloatText(x) == IsIntText(x) \/ \E p \in FloatTexts \cup FloatAliases : p[1] = x

ParseFloat(x) ==
    IF IsIntText(x) THEN 10 * ParseInt(x)
    ELSE (CHOOSE p \in FloatTexts \cup FloatAliases : p[1] = x)[2]

\* str.lower() on the texts the model uses
Lower(x) ==
    CASE x = "True" -> "true"
      [] x = "False" -> "false"
      [] x = "TRUE" -> "true"
      [] x = "Yes" -> "yes"
      [] x = "None" -> "none"
      [] OTHER -> x

\* str(value)
PyStr(v) ==
    CASE v.t = "str" -> v.s
      [] v.t = "int" -> IntStr(v.n)
      [] v.t = "float" -> FloatStr(v.n)
      [] v.t = "bool" -> IF v.n = 1 THEN "True" ELSE "False"
      [] OTHER -> "None"

\* bool(value)
PyTruthy(v) ==
    CASE v.t = "str" -> v.s # ""
      [] v.t \in {"int", "float", "bool"} -> v.n # 0
      [] OTHER -> FALSE

----------------------------------------------------------------------------
(* config_schema.py: the schema *)

CONFIG_SCHEMA ==
    <<"dll", "multiplier", "flow_scale", "performance_mode", "hdr_mode",
      "experimental_present_mode">>

SCRIPT_ONLY_FIELDS == <<"dxvk_frame_rate", "enable_wow64", "disable_steamdeck_mode">>

COMPLETE_CONFIG_SCHEMA == CONFIG_SCHEMA \o SCRIPT_ONLY_FIELDS

PER_GAME_FIELDS == <<"per_game_profiles">>

FULL_CONFIG_SCHEMA == COMPLETE_CONFIG_SCHEMA \o PER_GAME_FIELDS

Range(q) == { q[i] : i \in DOMAIN q }

field_type(name) ==
    CASE name \in {"dll", "experimental_present_mode"} -> "string"
      [] name \in {"multiplier", "dxvk_frame_rate"} -> "integer"
      [] name = "flow_scale" -> "float"
      [] OTHER -> "boolean"

field_default(name) ==
    CASE name = "dll" -> PStr("")
      [] name = "multiplier" -> PInt(1)
      [] name = "flow_scale" -> PFloat(8)
      [] name = "performance_mode" -> PBool(TRUE)
      [] name = "hdr_mode" -> PBool(FALSE)
      [] name = "experimental_present_mode" -> PStr("fifo")
      [] name = "dxvk_frame_rate" -> PInt(0)
      [] name = "enable_wow64" -> PBool(FALSE)
      [] name = "disable_steamdeck_mode" -> PBool(FALSE)
      [] OTHER -> PBool(FALSE)

get_defaults == [f \in Range(FULL_CONFIG_SCHEMA) |-> field_default(f)]

DEFAULT_PROFILE == "decky-lsfg-vk"

FALLBACK_DLL == "/home/deck/.local/share/Steam/steamapps/common/Lossless Scaling/Lossless.dll"

\* dict.get(key, default)
DictGet(d, key, default) == IF key \in DOMAIN d THEN d[key] ELSE default

----------------------------------------------------------------------------
(* config_schema.py: serialization of the structured file *)

Blank == <<"blank">>
Comment(x) == <<"comment", x>>
Header(h) == <<"header", h>>
KV(key, quote, x) == <<"kv", key, quote, x>>
PgpLine(form, x) == <<"pgp", form, x>>

field_description(name) ==
    CASE name = "multiplier" -> "change the fps multiplier"
      [] name = "flow_scale" -> "change the flow scale"
      [] name = "performance_mode" -> "toggle performance mode"
      [] name = "hdr_mode" -> "enable hdr mode"
      [] OTHER -> "experimental: override vulkan present mode (fifo/mailbox/immediate)"

\* the value line of one field: nothing for an empty string or None
format_value(name, value) ==
    IF value.t = "bool" THEN <<KV(name, "bare", Lower(PyStr(value)))>>
    ELSE IF value.t = "str" /\ value.s # "" THEN <<KV(name, "dq", value.s)>>
    ELSE IF value.t \in {"int", "float"} THEN <<KV(name, "bare", PyStr(value))>>
    ELSE <<>>

\* the field lines of one [[game]] block, in schema order, dll skipped
RECURSIVE game_fields(_, _)
game_fields(config, i) ==
    IF i > Len(CONFIG_SCHEMA) THEN <<>>
    ELSE IF CONFIG_SCHEMA[i] = "dll" THEN game_fields(config, i + 1)
    ELSE <<Comment(field_description(CONFIG_SCHEMA[i]))>>
         \o format_value(CONFIG_SCHEMA[i], config[CONFIG_SCHEMA[i]])
         \o <<Blank>>
         \o game_fields(config, i + 1)

\* the commented flag line
pgp_line(config) ==
    PgpLine("commented", Lower(PyStr(DictGet(config, "per_game_profiles", PBool(FALSE)))))

generate_toml_content(config) ==
    <<KV("version", "bare", "1"), Blank>>
    \o (IF PyTruthy(DictGet(config, "dll", PNone))
        THEN <<Header("[global]"), Comment("Global settings"),
               Comment("specify where Lossless.dll is stored"),
               KV("dll", "dq", PyStr(config["dll"])),
               Comment("Enable per-game profiles"),
               pgp_line(config), Blank>>
        ELSE <<>>)
    \o <<Header("[[game]]"),
         Comment("Plugin-managed game entry (uses LSFG_PROCESS=decky-lsfg-vk)"),
         KV("exe", "dq", DEFAULT_PROFILE), Blank>>
    \o game_fields(config, 1)

----------------------------------------------------------------------------
(* config_schema.py: the single-profile parse *)

\* a reading of the flag that accepts the word true alone
TruthyTextStrict(x) == Lower(x) = "true"

\* value.lower() in ('true', '1', 'yes', 'on')
TruthyText(x) == Lower(x) \in {"true", "1", "yes", "on"}

\* a key = value line's value with its quotes removed
Unquote(line) == line[4]

\* the typed conversion of the single-profile parse; <<>> when it raises
convert_single(name, x) ==
    CASE field_type(name) = "boolean" -> <<PBool(TruthyText(x))>>
      [] field_type(name) = "integer" -> IF IsIntText(x) THEN <<PInt(ParseInt(x))>> ELSE <<>>
      [] field_type(name) = "float" -> IF IsFloatText(x) THEN <<PFloat(ParseFloat(x))>> ELSE <<>>
      [] OTHER -> <<PStr(x)>>

\* parser state: config, the two section flags, current_game_exe
\* (exeSet FALSE is Python's None)
ParseInit ==
    [config |-> get_defaults, in_global |-> FALSE, in_game |-> FALSE,
     exeSet |-> FALSE, exe |-> ""]

parse_toml_line(st, line) ==
    CASE line[1] = "pgp" ->
            [st EXCEPT !.config["per_game_profiles"] = PBool(TruthyText(line[3]))]
      [] line[1] = "header" ->
            IF line[2] = "[global]"
            THEN [st EXCEPT !.in_global = TRUE, !.in_game = FALSE]
            ELSE IF line[2] = "[[game]]"
            THEN [st EXCEPT !.in_global = FALSE, !.in_game = TRUE,
                            !.exeSet = FALSE, !.exe = ""]
            ELSE [st EXCEPT !.in_global = FALSE, !.in_game = FALSE]
      [] line[1] = "kv" ->
            IF st.in_global
            THEN IF line[2] = "dll"
                 THEN [st EXCEPT !.config["dll"] = PStr(Unquote(line))]
                 ELSE st
            ELSE IF st.in_game
            THEN IF line[2] = "exe"
                 THEN [st EXCEPT !.exeSet = TRUE, !.exe = Unquote(line)]
                 ELSE IF st.exeSet /\ st.exe = DEFAULT_PROFILE
                         /\ line[2] \in Range(CONFIG_SCHEMA)
                         /\ convert_single(line[2], Unquote(line)) # <<>>
                 THEN [st EXCEPT !.config[line[2]] =
                                     convert_single(line[2], Unquote(line))[1]]
                 ELSE st
            ELSE st
      [] OTHER -> st

\* the loop over the lines; the state is computed line by line (the two
\* section flags are never both set, reading them evaluates the state)
RECURSIVE parse_toml_from(_, _, _)
parse_toml_from(lines, i, st) ==
    IF i > Len(lines) \/ (st.in_global /\ st.in_game) THEN st
    ELSE parse_toml_from(lines, i + 1, parse_toml_line(st, lines[i]))

parse_toml_content(content) == parse_toml_from(content, 1, ParseInit).config

----------------------------------------------------------------------------
(* config_schema.py: script parse, merge, validation *)

\* A line of the launch script: <<"export", name, value>> for a line that
\* starts with "export " and holds an '=', <<"sh", text>> for any other line.
Export(name, x) == <<"export", name, x>>
Sh(x) == <<"sh", x>>

\* dict[key] = value on a Python dict modelled as a function
DictPut(d, key, value) ==
    [k \in DOMAIN d \cup {key} |-> IF k = key THEN value ELSE d[k]]

EmptyDict == [k \in {} |-> PNone]

parse_script_line(values, line) ==
    IF line[1] # "export" THEN values
    ELSE CASE line[2] = "DXVK_FRAME_RATE" ->
                 IF IsIntText(line[3])
                 THEN DictPut(values, "dxvk_frame_rate", PInt(ParseInt(line[3])))
                 ELSE values
           [] line[2] = "PROTON_USE_WOW64" ->
                 DictPut(values, "enable_wow64", PBool(line[3] = "1"))
           [] line[2] = "SteamDeck" ->
                 DictPut(values, "disable_steamdeck_mode", PBool(line[3] = "0"))
           [] OTHER -> values

RECURSIVE parse_script_from(_, _, _)
parse_script_from(lines, i, values) ==
    IF i > Len(lines) THEN values
    ELSE parse_script_from(lines, i + 1, parse_script_line(values, lines[i]))

parse_script_content(script_content) == parse_script_from(script_content, 1, EmptyDict)

\* a merge that overlays every key of the script data (dict.update)
merge_overlay_all(toml_config, script_values) ==
    [k \in DOMAIN toml_config \cup DOMAIN script_values |->
        IF k \in DOMAIN script_values THEN script_values[k] ELSE toml_config[k]]

merge_config_with_script(toml_config, script_values) ==
    [k \in DOMAIN toml_config |->
        IF k \in Range(SCRIPT_ONLY_FIELDS) /\ k \in DOMAIN script_values
        THEN script_values[k]
        ELSE toml_config[k]]

\* int(value) truncates a float toward zero
Trunc(tenths) == IF tenths >= 0 THEN tenths \div 10 ELSE -((-tenths) \div 10)

\* the exception the conversion of one field raises, "none" when it succeeds
coerce_exc(name, value) ==
    CASE field_type(name) = "integer" ->
            (CASE value.t = "none" -> "TypeError"
               [] value.t = "str" -> IF IsIntText(value.s) THEN "none" ELSE "ValueError"
               [] OTHER -> "none")
      [] field_type(name) = "float" ->
            (CASE value.t = "none" -> "TypeError"
               [] value.t = "str" -> IF IsFloatText(value.s) THEN "none" ELSE "ValueError"
               [] OTHER -> "none")
      [] OTHER -> "none"

\* bool(value), int(value), float(value) or str(value), by the field's type
coerce(name, value) ==
    CASE field_type(name) = "boolean" -> PBool(PyTruthy(value))
      [] field_type(name) = "integer" ->
            (CASE value.t = "str" -> PInt(ParseInt(value.s))
               [] value.t = "float" -> PInt(Trunc(value.n))
               [] OTHER -> PInt(value.n))
      [] field_type(name) = "float" ->
            (CASE value.t = "str" -> PFloat(ParseFloat(value.s))
               [] value.t = "float" -> PFloat(value.n)
               [] OTHER -> PFloat(10 * value.n))
      [] OTHER -> PStr(PyStr(value))

\* the first conversion of validate_config that raises, in schema order
RECURSIVE validate_exc_from(_, _)
validate_exc_from(config, i) ==
    IF i > Len(FULL_CONFIG_SCHEMA) THEN "none"
    ELSE LET name == FULL_CONFIG_SCHEMA[i]
             e == coerce_exc(name, DictGet(config, name, field_default(name)))
         IN  IF e # "none" THEN e ELSE validate_exc_from(config, i + 1)

\* a validation that substitutes the default for a value it cannot convert
validate_degrading(config) ==
    [exc |-> "none",
     value |-> [name \in Range(FULL_CONFIG_SCHEMA) |->
                  LET v == DictGet(config, name, field_default(name))
                  IN  IF coerce_exc(name, v) # "none" THEN field_default(name)
                      ELSE coerce(name, v)]]

\* validate_config: [exc, value]; value is meaningful when exc = "none"
validate_config(config) ==
    LET e == validate_exc_from(config, 1)
    IN  [exc |-> e,
         value |-> IF e # "none" THEN EmptyDict
                   ELSE [name \in Range(FULL_CONFIG_SCHEMA) |->
                            coerce(name, DictGet(config, name, field_default(name)))]]

\* defaults that keep the empty dll when the detection finds nothing
get_defaults_without_fallback(dll_result) ==
    IF ~dll_result.raises /\ dll_result.detected /\ PyTruthy(dll_result.path)
    THEN [get_defaults EXCEPT !["dll"] = dll_result.path]
    ELSE get_defaults

\* get_defaults_with_dll_detection; dll_result is what the detection
\* service answers: [raises, detected, path]
get_defaults_with_dll_detection(dll_result) ==
    LET detected == IF ~dll_result.raises /\ dll_result.detected /\ PyTruthy(dll_result.path)
                    THEN [get_defaults EXCEPT !["dll"] = dll_result.path]
                    ELSE get_defaults
    IN  IF ~PyTruthy(detected["dll"])
        THEN [detected EXCEPT !["dll"] = PStr(FALLBACK_DLL)]
        ELSE detected

----------------------------------------------------------------------------
(* config_schema.py: the per-profile codec *)

\* game_profiles is a Python dict, which keeps insertion order: a sequence
\* of [name, config] with distinct names.
ProfileNames(profiles) == { profiles[i].name : i \in DOMAIN profiles }

ProfileGet(profiles, name) ==
    (CHOOSE i \in DOMAIN profiles : profiles[i].name = name)

ProfileOf(profiles, name) == profiles[ProfileGet(profiles, name)].config

\* game_profiles[name] = config
ProfilePut(profiles, name, config) ==
    IF name \in ProfileNames(profiles)
    THEN [profiles EXCEPT ![ProfileGet(profiles, name)].config = config]
    ELSE Append(profiles, [name |-> name, config |-> config])

game_block(name, config) ==
    <<Header("[[game]]"),
      Comment(IF name = DEFAULT_PROFILE
              THEN "Default profile (uses LSFG_PROCESS=decky-lsfg-vk)"
              ELSE "Profile for " \o name),
      KV("exe", "dq", name), Blank>>
    \o game_fields(config, 1)

RECURSIVE game_blocks(_, _)
game_blocks(profiles, i) ==
    IF i > Len(profiles) THEN <<>>
    ELSE game_block(profiles[i].name, profiles[i].config) \o game_blocks(profiles, i + 1)

generate_per_game_toml_content(config, game_profiles) ==
    <<KV("version", "bare", "1"), Blank,
      Header("[global]"), Comment("Global settings")>>
    \o (IF PyTruthy(DictGet(config, "dll", PNone))
        THEN <<Comment("specify where Lossless.dll is stored"),
               KV("dll", "dq", PyStr(config["dll"]))>>
        ELSE <<>>)
    \o <<Comment("Enable per-game profiles"), pgp_line(config), Blank>>
    \o (IF DEFAULT_PROFILE \notin ProfileNames(game_profiles)
        THEN game_block(DEFAULT_PROFILE, config)
        ELSE <<>>)
    \o game_blocks(game_profiles, 1)

\* the typed conversion of the per-profile parse: the default when it raises
convert_per_game(name, x) ==
    CASE field_type(name) = "boolean" -> PBool(Lower(x) = "true")
      [] field_type(name) = "integer" ->
            IF IsIntText(x) THEN PInt(ParseInt(x)) ELSE field_default(name)
      [] field_type(name) = "float" ->
            IF IsFloatText(x) THEN PFloat(ParseFloat(x)) ELSE field_default(name)
      [] OTHER -> PStr(x)

\* parser state: global_config, game_profiles, the section flags,
\* current_game_exe and current_game_config (cfgSet FALSE is None)
PerGameInit ==
    [global_config |-> get_defaults, game_profiles |-> <<>>,
     in_global |-> FALSE, in_game |-> FALSE,
     exeSet |-> FALSE, exe |-> "", cfgSet |-> FALSE, config |-> get_defaults]

\* a flush that keeps the first block saved under a name
flush_profile_first(st) ==
    IF st.in_game /\ st.exeSet /\ st.exe # "" /\ st.cfgSet
       /\ st.exe \notin ProfileNames(st.game_profiles)
    THEN ProfilePut(st.game_profiles, st.exe, st.config)
    ELSE st.game_profiles

\* "if in_game_section and current_game_exe and current_game_config: save"
flush_profile(st) ==
    IF st.in_game /\ st.exeSet /\ st.exe # "" /\ st.cfgSet
    THEN ProfilePut(st.game_profiles, st.exe, st.config)
    ELSE st.game_profiles

parse_per_game_line(st, line) ==
    CASE line[1] = "pgp" ->
            [st EXCEPT !.global_config["per_game_profiles"] = PBool(TruthyText(line[3]))]
      [] line[1] = "header" ->
            IF line[2] = "[global]"
            THEN [st EXCEPT !.game_profiles = flush_profile(st),
                            !.in_global = TRUE, !.in_game = FALSE,
                            !.exeSet = FALSE, !.exe = "", !.cfgSet = FALSE,
                            !.config = get_defaults]
            ELSE IF line[2] = "[[game]]"
            THEN [st EXCEPT !.game_profiles = flush_profile(st),
                            !.in_global = FALSE, !.in_game = TRUE,
                            !.exeSet = FALSE, !.exe = "", !.cfgSet = TRUE,
                            !.config = get_defaults]
            ELSE [st EXCEPT !.game_profiles = flush_profile(st),
                            !.in_global = FALSE, !.in_game = FALSE,
                            !.exeSet = FALSE, !.exe = "", !.cfgSet = FALSE,
                            !.config = get_defaults]
      [] line[1] = "kv" ->
            IF st.in_global
            THEN IF line[2] = "dll"
                 THEN [st EXCEPT !.global_config["dll"] = PStr(Unquote(line))]
                 ELSE st
            ELSE IF st.in_game /\ st.cfgSet
            THEN IF line[2] = "exe"
                 THEN [st EXCEPT !.exeSet = TRUE, !.exe = Unquote(line)]
                 ELSE IF line[2] \in Range(CONFIG_SCHEMA)
                 THEN [st EXCEPT !.config[line[2]] = convert_per_game(line[2], Unquote(line))]
                 ELSE st
            ELSE st
      [] OTHER -> st

\* the loop over the lines; the state is computed line by line (the two
\* section flags are never both set, reading them evaluates the state)
RECURSIVE parse_per_game_from(_, _, _)
parse_per_game_from(lines, i, st) ==
    IF i > Len(lines) \/ (st.in_global /\ st.in_game) THEN st
    ELSE parse_per_game_from(lines, i + 1, parse_per_game_line(st, lines[i]))

\* parse_per_game_toml_content: [global_config, game_profiles]
parse_per_game_toml_content(content) ==
    LET st == parse_per_game_from(content, 1, PerGameInit)
    IN  [global_config |-> st.global_config, game_profiles |-> flush_profile(st)]

----------------------------------------------------------------------------
(* configuration.py: the launch script *)

\* dxvk_frame_rate > 0 raises TypeError on a value that is no number
script_exc(config) ==
    IF DictGet(config, "dxvk_frame_rate", PInt(0)).t \in {"int", "float", "bool"}
    THEN "none" ELSE "TypeError"

\* a script that exports the default identifier in both modes
generate_script_global_only(config) ==
    <<Sh("#!/bin/bash"), Sh("launch_command=$@"),
      Export("LSFG_PROCESS", DEFAULT_PROFILE)>>
    \o (IF PyTruthy(DictGet(config, "enable_wow64", PBool(FALSE)))
        THEN <<Export("PROTON_USE_WOW64", "1")>> ELSE <<>>)
    \o (IF PyTruthy(DictGet(config, "disable_steamdeck_mode", PBool(FALSE)))
        THEN <<Export("SteamDeck", "0")>> ELSE <<>>)
    \o (IF DictGet(config, "dxvk_frame_rate", PInt(0)).n > 0
        THEN <<Export("DXVK_FRAME_RATE", PyStr(config["dxvk_frame_rate"]))>> ELSE <<>>)
    \o <<Sh("exec $@")>>

generate_script_content(config) ==
    <<Sh("#!/bin/bash"),
      Sh("# lsfg-vk launch script generated by decky-lossless-scaling-vk plugin"),
      Sh("# This script sets up the environment for lsfg-vk to work with the plugin configuration"),
      Sh("launch_command=$@"),
      Sh("logger lsfg-vk-launch: game launch command"),
      Sh("logger lsfg-vk-launch: executable")>>
    \o (IF PyTruthy(DictGet(config, "per_game_profiles", PBool(FALSE)))
        THEN <<Sh(""), Sh("# Per-game profile detection and auto-creation"),
               Sh("game_exe=$(basename $launch_command)"),
               Sh("if [[ $game_exe == *.exe ]]; then"),
               Sh("profile_name=$(sanitize ${game_exe%.exe})"),
               Export("LSFG_PROCESS", "$profile_name"),
               Sh("logger lsfg-vk-launch: using per-game profile"),
               Sh("if config file lacks exe = $profile_name: python3 -c update_game_profile($profile_name, get_config())"),
               Sh("else"),
               Export("LSFG_PROCESS", DEFAULT_PROFILE),
               Sh("logger lsfg-vk-launch: using default profile"),
               Sh("fi"), Sh("")>>
        ELSE <<Export("LSFG_PROCESS", DEFAULT_PROFILE)>>)
    \o (IF PyTruthy(DictGet(config, "enable_wow64", PBool(FALSE)))
        THEN <<Export("PROTON_USE_WOW64", "1")>> ELSE <<>>)
    \o (IF PyTruthy(DictGet(config, "disable_steamdeck_mode", PBool(FALSE)))
        THEN <<Export("SteamDeck", "0")>> ELSE <<>>)
    \o (IF DictGet(config, "dxvk_frame_rate", PInt(0)).n > 0
        THEN <<Export("DXVK_FRAME_RATE", PyStr(config["dxvk_frame_rate"]))>> ELSE <<>>)
    \o <<Sh("exec $@")>>

----------------------------------------------------------------------------
(* Files and responses *)

NoFile == [exists |-> FALSE, lines |-> <<>>]
File(lines) == [exists |-> TRUE, lines |-> lines]

\* _write_file: the file holds the content, or the write raises OSError and
\* the file is as before
write_file(file, content, fails) == IF fails THEN file ELSE File(content)

\* a response; hasConfig FALSE is "config": None
Response(op, success, config) ==
    [op |-> op, raised |-> "none", success |-> success, hasConfig |-> TRUE,
     config |-> config, profiles |-> <<>>]

Failure(op) ==
    [op |-> op, raised |-> "none", success |-> FALSE, hasConfig |-> FALSE,
     config |-> EmptyDict, profiles |-> <<>>]

\* no response: the exception leaves the operation
Raised(op, exc) ==
    [op |-> op, raised |-> exc, success |-> FALSE, hasConfig |-> FALSE,
     config |-> EmptyDict, profiles |-> <<>>]

\* update_lsfg_script: [success, script, event]; a failure to generate or to
\* write the script is caught and returned as success False
update_lsfg_script(config, scriptFile, writeFails) ==
    IF script_exc(config) # "none"
    THEN [success |-> FALSE, script |-> scriptFile, event |-> "script_generate_failed"]
    ELSE IF writeFails
    THEN [success |-> FALSE, script |-> scriptFile, event |-> "script_write_failed"]
    ELSE [success |-> TRUE,
          script |-> write_file(scriptFile, generate_script_content(config), writeFails),
          event |-> "script_written"]

\* an update that fails as a whole when the launch script cannot be updated
finish_update_strict(op, returned, toml_content, script_config, scriptFile, env) ==
    LET script_result == update_lsfg_script(script_config, scriptFile, env.scriptWrite # "ok")
    IN  [resp |-> IF script_result.success THEN Response(op, TRUE, returned) ELSE Failure(op),
         toml |-> File(toml_content),
         script |-> script_result.script,
         events |-> <<"toml_written", script_result.event>>]

\* an update that regenerates the script from the schema defaults
finish_update_stale(op, returned, toml_content, script_config, scriptFile, env) ==
    LET script_result == update_lsfg_script(get_defaults, scriptFile, env.scriptWrite # "ok")
    IN  [resp |-> Response(op, TRUE, returned),
         toml |-> File(toml_content),
         script |-> script_result.script,
         events |-> <<"toml_written", script_result.event>>]

\* what an update does once the structured file is written: regenerate the
\* script, log a warning when that failed, and report success.
\* [resp, toml, script, events]
finish_update(op, returned, toml_content, script_config, scriptFile, env) ==
    LET script_result == update_lsfg_script(script_config, scriptFile, env.scriptWrite # "ok")
    IN  [resp |-> Response(op, TRUE, returned),
         toml |-> File(toml_content),
         script |-> script_result.script,
         events |-> <<"toml_written", script_result.event>>]

\* an update that ends before any write, or whose structured-file write fails
abort_update(response, tomlFile, scriptFile, events) ==
    [resp |-> response, toml |-> tomlFile, script |-> scriptFile, events |-> events]

----------------------------------------------------------------------------
(* configuration.py: the operations.  env is what the environment does     *)
(* during the call: tomlRead ("ok", "OSError", "decode"), scriptRead,      *)
(* tomlWrite and scriptWrite ("ok" or "OSError"), dll (the DLL detection's *)
(* answer), detect (the active-profile detection).                         *)

get_config(tomlFile, scriptFile, env) ==
    IF tomlFile.exists /\ env.tomlRead = "OSError" THEN Failure("get_config")
    ELSE IF tomlFile.exists /\ env.tomlRead = "decode"
    THEN Response("get_config", TRUE, get_defaults_with_dll_detection(env.dll))
    ELSE LET toml_config == IF ~tomlFile.exists
                            THEN get_defaults_with_dll_detection(env.dll)
                            ELSE parse_toml_content(tomlFile.lines)
             script_values == IF scriptFile.exists /\ env.scriptRead = "ok"
                              THEN parse_script_content(scriptFile.lines)
                              ELSE EmptyDict
         IN  Response("get_config", TRUE,
                      merge_config_with_script(toml_config, script_values))

\* dict minus the two global-only keys
WithoutGlobalKeys(config) ==
    [k \in DOMAIN config \ {"dll", "per_game_profiles"} |-> config[k]]

\* dict.update: b's keys over a's
Overlay(a, b) ==
    [k \in DOMAIN a \cup DOMAIN b |-> IF k \in DOMAIN b THEN b[k] ELSE a[k]]

\* names of the model's processes that end in ".exe", with the profile name
\* exe_name[:-4].replace(' ', '-').lower(), other characters made hyphens
ExeNames == { <<"Game A.exe", "game-a">>, <<"Game_B!.exe", "game_b-">> }

EndsWithExe(x) == \E p \in ExeNames : p[1] = x

ExeProfileName(x) == (CHOOSE p \in ExeNames : p[1] = x)[2]

\* the LSFG_PROCESS fallback: the first lsfg process whose arguments name a
\* known profile other than the default; <<>> when there is none
RECURSIVE lsfg_fallback(_, _, _)
lsfg_fallback(lsfg_processes, i, game_profiles) ==
    IF i > Len(lsfg_processes) THEN <<>>
    ELSE LET m == DictGet(lsfg_processes[i], "args", [lsfg_process |-> <<>>]).lsfg_process
         IN  IF m # <<>> /\ m[1] \in ProfileNames(game_profiles) /\ m[1] # DEFAULT_PROFILE
             THEN m
             ELSE lsfg_fallback(lsfg_processes, i + 1, game_profiles)

\* the exe fallback: the first process whose 'name' ends in .exe and maps to
\* a known profile
RECURSIVE exe_fallback(_, _, _)
exe_fallback(processes, i, game_profiles) ==
    IF i > Len(processes) THEN <<>>
    ELSE LET name == DictGet(processes[i], "name", "")
         IN  IF EndsWithExe(name) /\ ExeProfileName(name) \in ProfileNames(game_profiles)
             THEN <<ExeProfileName(name)>>
             ELSE exe_fallback(processes, i + 1, game_profiles)

\* the profile update_config takes as active: <<>> is None
select_active_profile(detect, game_profiles) ==
    LET primary == IF detect.primary # <<>> /\ detect.primary[1] # ""
                      /\ detect.primary[1] \in ProfileNames(game_profiles)
                   THEN detect.primary ELSE <<>>
        second == IF primary # <<>> THEN primary
                  ELSE lsfg_fallback(detect.running.lsfg_processes, 1, game_profiles)
    IN  IF second # <<>> THEN second
        ELSE exe_fallback(detect.running.processes, 1, game_profiles)

\* the profile map of a per-game update_config on an existing file:
\* [exc, game_profiles], exc the exception that leaves the detection block
per_game_profiles_update(config, existing_profiles, detect) ==
    LET validated == validate_config(WithoutGlobalKeys(config))
        withDefault == ProfilePut(existing_profiles, DEFAULT_PROFILE, validated.value)
        active == select_active_profile(detect, existing_profiles)
    IN  IF validated.exc # "none"
        THEN [exc |-> validated.exc, game_profiles |-> existing_profiles]
        ELSE IF detect.raises \/ active = <<>> \/ active[1] = DEFAULT_PROFILE
        THEN [exc |-> "none", game_profiles |-> withDefault]
        ELSE [exc |-> "none",
              game_profiles |->
                  ProfilePut(withDefault, active[1],
                      validate_config(Overlay(ProfileOf(withDefault, active[1]),
                                              WithoutGlobalKeys(config))).value)]

\* update_config: [resp, toml, script]
update_config(config, tomlFile, scriptFile, env) ==
    LET per_game == PyTruthy(config["per_game_profiles"])
        reads == per_game /\ tomlFile.exists
        update == per_game_profiles_update(
                      config, parse_per_game_toml_content(tomlFile.lines).game_profiles,
                      env.detect)
        toml_content ==
            IF ~per_game THEN generate_toml_content(config)
            ELSE IF ~tomlFile.exists THEN generate_per_game_toml_content(config, <<>>)
            ELSE generate_per_game_toml_content(config, update.game_profiles)
    IN  IF reads /\ env.tomlRead # "ok"
        THEN abort_update(Failure("update_config"), tomlFile, scriptFile, <<>>)
        ELSE IF reads /\ update.exc = "ValueError"
        THEN abort_update(Failure("update_config"), tomlFile, scriptFile, <<>>)
        ELSE IF reads /\ update.exc # "none"
        THEN abort_update(Raised("update_config", update.exc), tomlFile, scriptFile, <<>>)
        ELSE IF env.tomlWrite # "ok"
        THEN abort_update(Failure("update_config"), tomlFile, scriptFile, <<"toml_failed">>)
        ELSE finish_update("update_config", config, toml_content, config, scriptFile, env)

\* update_dll_path: [resp, toml, script]
update_dll_path(dll_path, tomlFile, scriptFile, env) ==
    LET current == get_config(tomlFile, scriptFile, env)
        base == IF ~current.success \/ ~current.hasConfig
                THEN get_defaults_with_dll_detection(env.dll)
                ELSE current.config
        config == [base EXCEPT !["dll"] = dll_path]
    IN  IF env.tomlWrite # "ok"
        THEN abort_update(Failure("update_dll_path"), tomlFile, scriptFile, <<"toml_failed">>)
        ELSE [resp |-> Response("update_dll_path", TRUE, config),
              toml |-> File(generate_toml_content(config)),
              script |-> scriptFile,
              events |-> <<"toml_written">>]

get_game_profile(game_name, tomlFile, env) ==
    IF ~tomlFile.exists
    THEN Response("get_game_profile", TRUE, get_defaults_with_dll_detection(env.dll))
    ELSE IF env.tomlRead # "ok" THEN Failure("get_game_profile")
    ELSE LET parsed == parse_per_game_toml_content(tomlFile.lines)
             base == IF game_name \in ProfileNames(parsed.game_profiles)
                     THEN ProfileOf(parsed.game_profiles, game_name)
                     ELSE get_defaults
             withDll == IF PyTruthy(parsed.global_config["dll"])
                        THEN DictPut(base, "dll", parsed.global_config["dll"])
                        ELSE base
         IN  Response("get_game_profile", TRUE,
                      DictPut(withDll, "per_game_profiles",
                              parsed.global_config["per_game_profiles"]))

\* the five keys update_game_profile fills from the global configuration
REQUIRED_KEYS ==
    <<"multiplier", "flow_scale", "performance_mode", "hdr_mode",
      "experimental_present_mode">>

\* update_game_profile: [resp, toml, script]
update_game_profile(game_name, config, tomlFile, scriptFile, env) ==
    LET parsed == IF tomlFile.exists
                  THEN parse_per_game_toml_content(tomlFile.lines)
                  ELSE [global_config |-> get_defaults, game_profiles |-> <<>>]
        withDll == IF "dll" \in DOMAIN config
                   THEN DictPut(parsed.global_config, "dll", config["dll"])
                   ELSE parsed.global_config
        global_config == DictPut(withDll, "per_game_profiles",
                                 DictGet(config, "per_game_profiles", PBool(TRUE)))
        passed == WithoutGlobalKeys(config)
        new_game_config ==
            [k \in DOMAIN passed \cup Range(REQUIRED_KEYS) |->
                IF k \in DOMAIN passed THEN passed[k] ELSE global_config[k]]
        validated == validate_config(new_game_config)
        game_profiles == ProfilePut(parsed.game_profiles, game_name, validated.value)
    IN  IF tomlFile.exists /\ env.tomlRead # "ok"
        THEN abort_update(Failure("update_game_profile"), tomlFile, scriptFile, <<>>)
        ELSE IF validated.exc # "none"
        THEN abort_update(Failure("update_game_profile"), tomlFile, scriptFile, <<>>)
        ELSE IF env.tomlWrite # "ok"
        THEN abort_update(Failure("update_game_profile"), tomlFile, scriptFile,
                          <<"toml_failed">>)
        ELSE finish_update("update_game_profile", config,
                           generate_per_game_toml_content(global_config, game_profiles),
                           global_config, scriptFile, env)

list_game_profiles(tomlFile, env) ==
    IF ~tomlFile.exists
    THEN Response("list_game_profiles", TRUE, get_defaults)
    ELSE IF env.tomlRead # "ok" THEN Failure("list_game_profiles")
    ELSE [Response("list_game_profiles", TRUE,
                   parse_per_game_toml_content(tomlFile.lines).global_config)
            EXCEPT !.profiles = parse_per_game_toml_content(tomlFile.lines).game_profiles]

----------------------------------------------------------------------------
(* State shared by the specifications *)

NoResp == Failure("none")

NoCall == [op |-> "none"]

NoPure == [fn |-> "none"]

\* a fully-populated, correctly typed ConfigurationData
Config(dll, multiplier, flow_scale, performance_mode, hdr_mode, experimental_present_mode, dxvk_frame_rate, enable_wow64, disable_steamdeck_mode, per_game_profiles) ==
    [f \in Range(FULL_CONFIG_SCHEMA) |->
        CASE f = "dll" -> PStr(dll)
          [] f = "multiplier" -> PInt(multiplier)
          [] f = "flow_scale" -> PFloat(flow_scale)
          [] f = "performance_mode" -> PBool(performance_mode)
          [] f = "hdr_mode" -> PBool(hdr_mode)
          [] f = "experimental_present_mode" -> PStr(experimental_present_mode)
          [] f = "dxvk_frame_rate" -> PInt(dxvk_frame_rate)
          [] f = "enable_wow64" -> PBool(enable_wow64)
          [] f = "disable_steamdeck_mode" -> PBool(disable_steamdeck_mode)
          [] OTHER -> PBool(per_game_profiles)]

DllPaths == {"", "/games/Lossless.dll"}
Multipliers == {1, 2, 4}
FlowScales == {5, 8, 10}
PresentModes == {"", "fifo", "mailbox"}

----------------------------------------------------------------------------
(* The codec on its own: serialize, parse, serialize again *)

CodecConfigs ==
    { Config(d, m, fs, pm, hdr, epm, 0, FALSE, FALSE, pgp) :
        d \in DllPaths, m \in Multipliers, fs \in FlowScales,
        pm \in BOOLEAN, hdr \in BOOLEAN, epm \in PresentModes, pgp \in BOOLEAN }

InitCodec ==
    /\ toml = NoFile /\ script = NoFile /\ resp = NoResp /\ call = NoCall /\ calls = 0
    /\ pure \in { [fn |-> "codec", stage |-> "input", serializer |-> z, C |-> c,
                   text |-> <<>>, parsed |-> get_defaults, profiles |-> <<>>,
                   text2 |-> <<>>] :
                  z \in {"single", "per_game"}, c \in CodecConfigs }

Serialize ==
    /\ pure.fn = "codec" /\ pure.stage = "input"
    /\ pure' = [pure EXCEPT !.stage = "serialized",
                            !.text = IF pure.serializer = "single"
                                     THEN generate_toml_content(pure.C)
                                     ELSE generate_per_game_toml_content(pure.C, <<>>)]
    /\ UNCHANGED <<toml, script, resp, call, calls>>

Parse ==
    /\ pure.fn = "codec" /\ pure.stage = "serialized"
    /\ pure' = IF pure.serializer = "single"
               THEN [pure EXCEPT !.stage = "parsed",
                                 !.parsed = parse_toml_content(pure.text)]
               ELSE [pure EXCEPT !.stage = "parsed",
                                 !.parsed = parse_per_game_toml_content(pure.text).global_config,
                                 !.profiles = parse_per_game_toml_content(pure.text).game_profiles]
    /\ UNCHANGED <<toml, script, resp, call, calls>>

Reserialize ==
    /\ pure.fn = "codec" /\ pure.stage = "parsed"
    /\ pure' = [pure EXCEPT !.stage = "reserialized",
                            !.text2 = IF pure.serializer = "single"
                                      THEN generate_toml_content(pure.parsed)
                                      ELSE generate_per_game_toml_content(pure.parsed, pure.profiles)]
    /\ UNCHANGED <<toml, script, resp, call, calls>>

NextCodec == Serialize \/ Parse \/ Reserialize

SpecCodec == InitCodec /\ [][NextCodec]_vars

\* C1: parse_toml_content(generate_toml_content(C)) equals C on every persisted
\* field (dll, multiplier, flow_scale, performance_mode, hdr_mode,
\* experimental_present_mode), for every fully-populated C, empty strings included.
C1_RoundTrip ==
    (pure.fn = "codec" /\ pure.serializer = "single" /\ pure.stage = "parsed")
        => \A f \in Range(CONFIG_SCHEMA) : pure.parsed[f] = pure.C[f]

\* the matching parser's per_game_profiles value of a text
ParsedFlag(serializer, lines) ==
    IF serializer = "single"
    THEN parse_toml_content(lines)["per_game_profiles"]
    ELSE parse_per_game_toml_content(lines).global_config["per_game_profiles"]

\* C2: serializing with either serializer, parsing with the matching parser and
\* serializing again preserves per_game_profiles at every step: the parse of the
\* first text returns the value serialized, and so does the parse of the second.
C2_FlagPreserved ==
    pure.fn = "codec" =>
        /\ pure.stage = "parsed" =>
              pure.parsed["per_game_profiles"] = pure.C["per_game_profiles"]
        /\ pure.stage = "reserialized" =>
              ParsedFlag(pure.serializer, pure.text2) = pure.C["per_game_profiles"]

----------------------------------------------------------------------------
(* merge_config_with_script on its own *)

\* structured-file data: fully populated, the script-only fields at any value
MergeT ==
    { Config("/games/Lossless.dll", m, 8, TRUE, FALSE, "fifo", fr, w, FALSE, pgp) :
        m \in {1, 2}, fr \in {0, 60}, w \in BOOLEAN, pgp \in BOOLEAN }

\* the values a key of the script data may hold
MergeValues(key) ==
    CASE key = "dxvk_frame_rate" -> {PInt(0), PInt(90)}
      [] key = "multiplier" -> {PInt(3)}
      [] key = "per_game_profiles" -> {PBool(TRUE)}
      [] key = "dll" -> {PStr("")}
      [] OTHER -> {PBool(FALSE), PBool(TRUE)}

MergeKeys ==
    Range(SCRIPT_ONLY_FIELDS) \cup {"multiplier", "per_game_profiles", "dll"}

\* script data: any subset of the keys, script-only or not
MergeS ==
    UNION { { d \in [K -> UNION { MergeValues(k) : k \in MergeKeys }] :
                \A k \in K : d[k] \in MergeValues(k) } : K \in SUBSET MergeKeys }

InitMerge ==
    /\ toml = NoFile /\ script = NoFile /\ resp = NoResp /\ call = NoCall /\ calls = 0
    /\ pure \in { [fn |-> "merge", stage |-> "input", T |-> t, S |-> x, out |-> EmptyDict] :
                  t \in MergeT, x \in MergeS }

Merge ==
    /\ pure.fn = "merge" /\ pure.stage = "input"
    /\ pure' = [pure EXCEPT !.stage = "merged",
                            !.out = merge_config_with_script(pure.T, pure.S)]
    /\ UNCHANGED <<toml, script, resp, call, calls>>

NextMerge == Merge

SpecMerge == InitMerge /\ [][NextMerge]_vars

\* C3: merge_config_with_script(T, S) equals T on every persisted field and on
\* per_game_profiles, equals S on each script-only field that is a key of S and
\* T on each script-only field absent from S; other keys of S alter nothing.
C3_MergePrecedence ==
    (pure.fn = "merge" /\ pure.stage = "merged") =>
        /\ DOMAIN pure.out = Range(FULL_CONFIG_SCHEMA)
        /\ \A f \in Range(CONFIG_SCHEMA) \cup Range(PER_GAME_FIELDS) :
              pure.out[f] = pure.T[f]
        /\ \A f \in Range(SCRIPT_ONLY_FIELDS) :
              /\ f \in DOMAIN pure.S => pure.out[f] = pure.S[f]
              /\ f \notin DOMAIN pure.S => pure.out[f] = pure.T[f]

\* C3 witness: a merge whose script data holds a script-only key that differs
\* from T, lacks another, and holds a persisted key that differs from T
C3_Witness ==
    /\ pure.fn = "merge" /\ pure.stage = "merged"
    /\ "dxvk_frame_rate" \in DOMAIN pure.S
    /\ pure.S["dxvk_frame_rate"] # pure.T["dxvk_frame_rate"]
    /\ "enable_wow64" \notin DOMAIN pure.S
    /\ "multiplier" \in DOMAIN pure.S
    /\ pure.S["multiplier"] # pure.T["multiplier"]
    /\ pure.out["dxvk_frame_rate"] = PInt(90)

----------------------------------------------------------------------------
(* validate_config on its own *)

\* the values an input mapping may hold for a key: right type, another type
\* that converts, a string that does not, null
ValidateValues(key) ==
    CASE key = "multiplier" ->
            {PInt(2), PStr("02"), PFloat(5), PBool(TRUE), PStr("abc"), PNone}
      [] key = "flow_scale" -> {PFloat(5), PInt(1), PStr("0.50"), PStr("abc"), PNone}
      [] key = "hdr_mode" -> {PBool(TRUE), PStr("no"), PNone}
      [] key = "experimental_present_mode" -> {PStr("mailbox"), PStr(""), PNone}
      [] OTHER -> {PInt(60), PStr("sixty")}

ValidateKeys ==
    {"multiplier", "flow_scale", "hdr_mode", "experimental_present_mode", "dxvk_frame_rate"}

ValidateInputs ==
    UNION { { d \in [K -> UNION { ValidateValues(k) : k \in ValidateKeys }] :
                \A k \in K : d[k] \in ValidateValues(k) } : K \in SUBSET ValidateKeys }

InitValidate ==
    /\ toml = NoFile /\ script = NoFile /\ resp = NoResp /\ call = NoCall /\ calls = 0
    /\ pure \in { [fn |-> "validate", stage |-> "input", config |-> d,
                   out |-> [exc |-> "none", value |-> EmptyDict]] :
                  d \in ValidateInputs }

Validate ==
    /\ pure.fn = "validate" /\ pure.stage = "input"
    /\ pure' = [pure EXCEPT !.stage = "validated", !.out = validate_config(pure.config)]
    /\ UNCHANGED <<toml, script, resp, call, calls>>

NextValidate == Validate

SpecValidate == InitValidate /\ [][NextValidate]_vars

\* the run-time type a field of the given declared type holds
TypeTag(name) ==
    CASE field_type(name) = "boolean" -> "bool"
      [] field_type(name) = "integer" -> "int"
      [] field_type(name) = "float" -> "float"
      [] OTHER -> "str"

\* a present value that int() or float() rejects: null, or a non-numeric string
Uncoercible(name, v) ==
    /\ field_type(name) \in {"integer", "float"}
    /\ \/ v.t = "none"
       \/ v.t = "str" /\ field_type(name) = "integer" /\ ~IsIntText(v.s)
       \/ v.t = "str" /\ field_type(name) = "float" /\ ~IsFloatText(v.s)

UncoercibleKeys(config) == { k \in DOMAIN config : Uncoercible(k, config[k]) }

\* fully populated, every field of its declared type, the fields in `fallback`
\* at their defaults, absent fields at their defaults, well-typed values kept
Populated(config, value, fallback) ==
    /\ DOMAIN value = Range(FULL_CONFIG_SCHEMA)
    /\ \A f \in Range(FULL_CONFIG_SCHEMA) :
          /\ value[f].t = TypeTag(f)
          /\ (f \notin DOMAIN config \/ f \in fallback) => value[f] = field_default(f)
          /\ (f \in DOMAIN config /\ config[f].t = TypeTag(f)) => value[f] = config[f]

\* C9 as stated: validate_config returns a fully-populated ConfigurationData for
\* every input mapping; an uncoercible value yields that field's default, the
\* other fields are coerced normally, and no error is raised.
C9_NeverFails ==
    (pure.fn = "validate" /\ pure.stage = "validated") =>
        /\ pure.out.exc = "none"
        /\ Populated(pure.config, pure.out.value, UncoercibleKeys(pure.config))

\* C9 amended: validate_config returns a fully-populated, correctly typed
\* ConfigurationData exactly when every present integer and float value is
\* coercible; a non-numeric string raises ValueError and a null raises TypeError
\* (the first such field in schema order decides), and nothing is returned.
C9_FailsOnUncoercible ==
    (pure.fn = "validate" /\ pure.stage = "validated") =>
        /\ UncoercibleKeys(pure.config) = {} =>
              /\ pure.out.exc = "none"
              /\ Populated(pure.config, pure.out.value, {})
        /\ UncoercibleKeys(pure.config) # {} =>
              /\ pure.out.exc \in {"ValueError", "TypeError"}
              /\ pure.out.value = EmptyDict
              /\ pure.out.exc = "TypeError" =>
                    \E k \in UncoercibleKeys(pure.config) : pure.config[k].t = "none"
              /\ pure.out.exc = "ValueError" =>
                    \E k \in UncoercibleKeys(pure.config) : pure.config[k].t = "str"

\* C9 witness: a mapping with an uncoercible multiplier and a coercible
\* flow_scale has been validated, and the call raised
C9_Witness ==
    /\ pure.fn = "validate" /\ pure.stage = "validated"
    /\ "multiplier" \in DOMAIN pure.config /\ pure.config["multiplier"] = PStr("abc")
    /\ "flow_scale" \in DOMAIN pure.config /\ pure.config["flow_scale"] = PInt(1)
    /\ pure.out.exc = "ValueError"

----------------------------------------------------------------------------
(* The service: calls of the six operations on the two files *)

MaxCalls == 1

Dll(raises, detected, path) == [raises |-> raises, detected |-> detected, path |-> path]

\* the detection service finds nothing, fails, reports a hit without a path,
\* or finds a path
DllResults ==
    { Dll(FALSE, FALSE, PNone), Dll(TRUE, FALSE, PNone), Dll(FALSE, TRUE, PStr("")),
      Dll(FALSE, TRUE, PStr("/steam/Lossless.dll")) }

\* one row of get_running_processes: pid, ppid, comm, args; lsfg is the match
\* of LSFG_PROCESS=([^\s]+) in the arguments, <<>> when there is none
Process(comm, lsfg) ==
    [pid |-> "100", ppid |-> "1", comm |-> comm, args |-> [lsfg_process |-> lsfg]]

Running(processes, lsfg_processes) ==
    [processes |-> processes, lsfg_processes |-> lsfg_processes]

Detect(raises, primary, running) ==
    [raises |-> raises, primary |-> primary, running |-> running]

NoDetect == Detect(FALSE, <<>>, Running(<<>>, <<>>))

\* the detection finds nothing, raises, finds a profile of the file, finds a
\* name the file does not hold, or only the process table names a game
Detects ==
    { NoDetect,
      Detect(TRUE, <<>>, Running(<<>>, <<>>)),
      Detect(FALSE, <<"game-a">>, Running(<<>>, <<>>)),
      Detect(FALSE, <<"game-x">>, Running(<<>>, <<>>)),
      Detect(FALSE, <<>>, Running(<<Process("Game A.exe", <<>>)>>,
                                  <<Process("lsfg", <<DEFAULT_PROFILE>>)>>)),
      Detect(FALSE, <<>>, Running(<<>>, <<Process("lsfg", <<"game-b">>)>>)) }

Env(tomlRead, scriptRead, tomlWrite, scriptWrite, dll, detect) ==
    [tomlRead |-> tomlRead, scriptRead |-> scriptRead, tomlWrite |-> tomlWrite,
     scriptWrite |-> scriptWrite, dll |-> dll, detect |-> detect]

OkEnv == Env("ok", "ok", "ok", "ok", Dll(FALSE, FALSE, PNone), NoDetect)

\* a structured file edited by hand: two profiles, one with empty strings and
\* alternative spellings, no default profile
HandFile ==
    <<KV("version", "bare", "1"), Blank,
      Header("[global]"),
      KV("dll", "sq", "/games/Lossless.dll"),
      PgpLine("commented", "true"), Blank,
      Header("[[game]]"), KV("exe", "dq", "game-a"),
      KV("multiplier", "bare", "3"),
      KV("experimental_present_mode", "dq", ""), Blank,
      Header("[[game]]"), KV("exe", "dq", "game-b"),
      KV("multiplier", "bare", "02"),
      KV("flow_scale", "bare", "0.50"),
      KV("performance_mode", "bare", "false"),
      KV("hdr_mode", "bare", "true"),
      KV("experimental_present_mode", "dq", "mailbox")>>

\* the arguments of update_config, all of the declared types
TypedArgs ==
    { Config(d, 2, 5, FALSE, TRUE, epm, fr, fr = 60, FALSE, pgp) :
        d \in DllPaths, epm \in {"", "mailbox"}, fr \in {0, 60}, pgp \in BOOLEAN }

\* the settings an earlier session saved: global mode, then per-game mode
SavedArgs ==
    { Config("/games/Lossless.dll", 4, 10, TRUE, FALSE, "immediate", 90, FALSE, TRUE, pgp) :
        pgp \in BOOLEAN }

\* the two files before the calls: nothing installed yet, a structured file
\* edited by hand, or the files an earlier update_config wrote
InitFiles ==
    { [toml |-> NoFile, script |-> NoFile], [toml |-> File(HandFile), script |-> NoFile] }
    \cup { [toml |-> update_config(c, NoFile, NoFile, OkEnv).toml,
            script |-> update_config(c, NoFile, NoFile, OkEnv).script] : c \in SavedArgs }

\* the configs passed to update_game_profile: full, partial, empty
ProfileArgs ==
    { Config("/games/Lossless.dll", 4, 10, TRUE, TRUE, "immediate", 0, FALSE, FALSE, TRUE),
      [multiplier |-> PInt(3)],
      [multiplier |-> PInt(3), experimental_present_mode |-> PStr("")],
      EmptyDict }

ProfileNamesIn == {"game-a", "game-c", DEFAULT_PROFILE}

Pre == [toml |-> toml, script |-> script]

GetConfig(env) ==
    /\ calls < MaxCalls
    /\ resp' = get_config(toml, script, env)
    /\ call' = [op |-> "get_config", env |-> env, pre |-> Pre, events |-> <<>>]
    /\ calls' = calls + 1
    /\ UNCHANGED <<toml, script, pure>>

UpdateConfig(config, env) ==
    /\ calls < MaxCalls
    /\ LET r == update_config(config, toml, script, env)
       IN  /\ resp' = r.resp /\ toml' = r.toml /\ script' = r.script
           /\ call' = [op |-> "update_config", config |-> config, env |-> env,
                       pre |-> Pre, events |-> r.events]
    /\ calls' = calls + 1
    /\ UNCHANGED pure

UpdateDllPath(dll_path, env) ==
    /\ calls < MaxCalls
    /\ LET r == update_dll_path(dll_path, toml, script, env)
       IN  /\ resp' = r.resp /\ toml' = r.toml /\ script' = r.script
           /\ call' = [op |-> "update_dll_path", dll_path |-> dll_path, env |-> env,
                       pre |-> Pre, events |-> r.events]
    /\ calls' = calls + 1
    /\ UNCHANGED pure

GetGameProfile(game_name, env) ==
    /\ calls < MaxCalls
    /\ resp' = get_game_profile(game_name, toml, env)
    /\ call' = [op |-> "get_game_profile", game_name |-> game_name, env |-> env,
                pre |-> Pre, events |-> <<>>]
    /\ calls' = calls + 1
    /\ UNCHANGED <<toml, script, pure>>

UpdateGameProfile(game_name, config, env) ==
    /\ calls < MaxCalls
    /\ LET r == update_game_profile(game_name, config, toml, script, env)
       IN  /\ resp' = r.resp /\ toml' = r.toml /\ script' = r.script
           /\ call' = [op |-> "update_game_profile", game_name |-> game_name,
                       config |-> config, env |-> env, pre |-> Pre, events |-> r.events]
    /\ calls' = calls + 1
    /\ UNCHANGED pure

ListGameProfiles(env) ==
    /\ calls < MaxCalls
    /\ resp' = list_game_profiles(toml, env)
    /\ call' = [op |-> "list_game_profiles", env |-> env, pre |-> Pre, events |-> <<>>]
    /\ calls' = calls + 1
    /\ UNCHANGED <<toml, script, pure>>

Init ==
    /\ \E f \in InitFiles : toml = f.toml /\ script = f.script
    /\ resp = NoResp
    /\ call = NoCall
    /\ calls = 0
    /\ pure = NoPure

\* the detection only runs in per-game mode
DetectsFor(config) == IF PyTruthy(config["per_game_profiles"]) THEN Detects ELSE {NoDetect}

Next ==
    \/ \E d \in DllResults : GetConfig([OkEnv EXCEPT !.dll = d])
    \/ \E c \in TypedArgs : \E d \in DetectsFor(c) :
          UpdateConfig(c, [OkEnv EXCEPT !.detect = d])
    \/ \E p \in {PStr(""), PStr("/other/Lossless.dll")} : UpdateDllPath(p, OkEnv)
    \/ \E g \in ProfileNamesIn : GetGameProfile(g, OkEnv)
    \/ \E g \in ProfileNamesIn, c \in ProfileArgs : UpdateGameProfile(g, c, OkEnv)
    \/ ListGameProfiles(OkEnv)

Spec == Init /\ [][Next]_vars

----------------------------------------------------------------------------
(* Claims about single calls *)

\* the fields a [[game]] block persists
PROFILE_FIELDS == Range(CONFIG_SCHEMA) \ {"dll"}

\* the profiles of the structured file before and after the call
ProfilesIn(file) ==
    IF file.exists THEN parse_per_game_toml_content(file.lines).game_profiles ELSE <<>>

PreProfiles == ProfilesIn(call.pre.toml)

PostProfiles == ProfilesIn(toml)

SameProfile(a, b) == \A f \in PROFILE_FIELDS : a[f] = b[f]

\* the DLL detection gave no path: it raised, found nothing, or found an
\* empty path
NoDllPath(d) == d.raises \/ ~d.detected \/ ~PyTruthy(d.path)

\* C4: with neither file present and no DLL path detected, getConfig returns
\* success with exactly the schema defaults and the fallback DLL path.
C4_EmptyEnvironmentDefaults ==
    (/\ call.op = "get_config"
     /\ ~call.pre.toml.exists /\ ~call.pre.script.exists
     /\ NoDllPath(call.env.dll))
        => /\ resp.raised = "none" /\ resp.success /\ resp.hasConfig
           /\ resp.config = Config(FALLBACK_DLL, 1, 8, TRUE, FALSE, "fifo",
                                   0, FALSE, FALSE, FALSE)

\* C4 witness: getConfig answered in an empty environment whose DLL detection
\* raised
C4_Witness ==
    /\ call.op = "get_config"
    /\ ~call.pre.toml.exists /\ ~call.pre.script.exists
    /\ call.env.dll.raises
    /\ resp.success /\ resp.config["dll"] = PStr(FALLBACK_DLL)

\* C5: after a successful updateGameProfile(C, fields) on a file holding
\* profiles A and B, C distinct from both, the rewritten file holds A and B with
\* every persisted field value unchanged, and holds C.
C5_OtherProfilesPreserved ==
    (/\ call.op = "update_game_profile" /\ resp.success
     /\ Cardinality(ProfileNames(PreProfiles)) >= 2
     /\ call.game_name \notin ProfileNames(PreProfiles))
        => /\ call.game_name \in ProfileNames(PostProfiles)
           /\ \A n \in ProfileNames(PreProfiles) :
                 /\ n \in ProfileNames(PostProfiles)
                 /\ SameProfile(ProfileOf(PostProfiles, n), ProfileOf(PreProfiles, n))

\* the per-game update_config found no active profile: the file did not exist,
\* the detection raised, or every strategy came back empty
NoActiveProfile ==
    \/ ~call.pre.toml.exists
    \/ call.env.detect.raises
    \/ select_active_profile(call.env.detect, PreProfiles) = <<>>

\* C6: a per-game-mode updateConfig whose detection finds nothing or raises
\* still returns success, and the default profile of the written file holds
\* the incoming persisted settings.
C6_DetectionMissUpdatesDefault ==
    (/\ call.op = "update_config"
     /\ PyTruthy(call.config["per_game_profiles"])
     /\ NoActiveProfile)
        => /\ resp.raised = "none" /\ resp.success
           /\ DEFAULT_PROFILE \in ProfileNames(PostProfiles)
           /\ SameProfile(ProfileOf(PostProfiles, DEFAULT_PROFILE), call.config)

\* C8: whenever getConfig, getGameProfile, updateConfig or updateGameProfile
\* returns success, the config of the response holds all ten fields.
C8_ResponseFullyPopulated ==
    (/\ call.op \in {"get_config", "get_game_profile", "update_config",
                     "update_game_profile"}
     /\ resp.raised = "none" /\ resp.success)
        => resp.hasConfig /\ DOMAIN resp.config = Range(FULL_CONFIG_SCHEMA)

----------------------------------------------------------------------------
(* The service under failures: unreadable and unwritable files, arguments  *)
(* of the wrong type                                                       *)

\* one failure at a time, and both writes failing together
FaultEnvs ==
    { Env(f[1], f[2], f[3], f[4], Dll(FALSE, FALSE, PNone), NoDetect) :
        f \in { <<"ok", "ok", "ok", "ok">>,
                <<"OSError", "ok", "ok", "ok">>,
                <<"decode", "ok", "ok", "ok">>,
                <<"ok", "error", "ok", "ok">>,
                <<"ok", "ok", "OSError", "ok">>,
                <<"ok", "ok", "ok", "OSError">>,
                <<"ok", "ok", "OSError", "OSError">> } }

\* arguments of update_config: well typed, a null or non-numeric multiplier,
\* a non-numeric flow scale, a null frame rate
FaultArgs ==
    { [Config("/games/Lossless.dll", 2, 5, FALSE, TRUE, "mailbox", 60, TRUE, FALSE, pgp)
         EXCEPT ![k] = v] :
        pgp \in BOOLEAN,
        <<k, v>> \in { <<"multiplier", PInt(2)>>, <<"multiplier", PNone>>,
                       <<"multiplier", PStr("abc")>>, <<"flow_scale", PStr("abc")>>,
                       <<"dxvk_frame_rate", PNone>> } }

FaultProfileArgs ==
    { [multiplier |-> PInt(3)], [multiplier |-> PNone], [multiplier |-> PStr("abc")],
      [multiplier |-> PInt(3), dxvk_frame_rate |-> PStr("abc")] }

NextFaults ==
    \/ \E e \in FaultEnvs : GetConfig(e)
    \/ \E c \in FaultArgs, e \in FaultEnvs : UpdateConfig(c, e)
    \/ \E e \in FaultEnvs : UpdateDllPath(PStr("/other/Lossless.dll"), e)
    \/ \E e \in FaultEnvs : GetGameProfile("game-a", e)
    \/ \E c \in FaultProfileArgs, e \in FaultEnvs : UpdateGameProfile("game-c", c, e)
    \/ \E e \in FaultEnvs : ListGameProfiles(e)

SpecFaults == Init /\ [][NextFaults]_vars

\* C7: each of the six operations returns a response with a success flag for
\* every input and every environment failure; no exception reaches the caller.
C7_NoExceptionEscapes ==
    call.op # "none" => resp.raised = "none"

Events == Range(call.events)

----------------------------------------------------------------------------
(* Sequences of successful updates; pure.last remembers the arguments of   *)
(* the most recent update_config, <<>> while there was none                *)

MaxSeq == 2

NoHistory == [fn |-> "history", last |-> <<>>]

\* arguments of update_config that tell one call from the next
SeqArgs ==
    { Config(d, m, 5, FALSE, TRUE, epm, 0, FALSE, FALSE, pgp) :
        d \in {"", "/games/Lossless.dll"}, m \in {2, 3}, epm \in {"", "mailbox"},
        pgp \in BOOLEAN }

SeqDetects ==
    { NoDetect, Detect(TRUE, <<>>, Running(<<>>, <<>>)),
      Detect(FALSE, <<"game-a">>, Running(<<>>, <<>>)) }

SeqDetectsFor(config) ==
    IF PyTruthy(config["per_game_profiles"]) THEN SeqDetects ELSE {NoDetect}

SeqUpdateConfig(config, env) ==
    /\ calls < MaxSeq
    /\ LET r == update_config(config, toml, script, env)
       IN  /\ resp' = r.resp /\ toml' = r.toml /\ script' = r.script
           /\ call' = [op |-> "update_config", config |-> config, env |-> env,
                       pre |-> Pre, events |-> r.events]
           /\ pure' = IF r.resp.success THEN [pure EXCEPT !.last = <<config>>] ELSE pure
    /\ calls' = calls + 1

SeqUpdateDllPath(dll_path, env) ==
    /\ calls < MaxSeq
    /\ LET r == update_dll_path(dll_path, toml, script, env)
       IN  /\ resp' = r.resp /\ toml' = r.toml /\ script' = r.script
           /\ call' = [op |-> "update_dll_path", dll_path |-> dll_path, env |-> env,
                       pre |-> Pre, events |-> r.events]
    /\ calls' = calls + 1
    /\ UNCHANGED pure

SeqUpdateGameProfile(game_name, config, env) ==
    /\ calls < MaxSeq
    /\ LET r == update_game_profile(game_name, config, toml, script, env)
       IN  /\ resp' = r.resp /\ toml' = r.toml /\ script' = r.script
           /\ call' = [op |-> "update_game_profile", game_name |-> game_name,
                       config |-> config, env |-> env, pre |-> Pre, events |-> r.events]
    /\ calls' = calls + 1
    /\ UNCHANGED pure

InitSeq ==
    /\ \E f \in InitFiles : toml = f.toml /\ script = f.script
    /\ resp = NoResp
    /\ call = NoCall
    /\ calls = 0
    /\ pure = NoHistory

NextSeq ==
    \/ \E c \in SeqArgs : \E d \in SeqDetectsFor(c) :
          SeqUpdateConfig(c, [OkEnv EXCEPT !.detect = d])
    \/ \E p \in {PStr(""), PStr("/other/Lossless.dll")} : SeqUpdateDllPath(p, OkEnv)
    \/ \E g \in {"game-a", "game-c"} :
          \E c \in {[multiplier |-> PInt(4)], [hdr_mode |-> PBool(FALSE), dll |-> PStr("/p.dll")]} :
             SeqUpdateGameProfile(g, c, OkEnv)

SpecSeq == InitSeq /\ [][NextSeq]_vars

\* C11: after successful update_config calls interleaved with update_dll_path
\* and update_game_profile calls for non-default names, the default profile of
\* the structured file holds, on every persisted per-profile field, the value
\* the most recent update_config was given.
C11_DefaultProfileSynchronized ==
    (pure.fn = "history" /\ pure.last # <<>>)
        => /\ toml.exists
           /\ DEFAULT_PROFILE \in ProfileNames(PostProfiles)
           /\ SameProfile(ProfileOf(PostProfiles, DEFAULT_PROFILE), pure.last[1])

\* the per_game_profiles lines of a text
FlagLines(lines) == { i \in DOMAIN lines : lines[i][1] = "pgp" }

\* C16: after successful update_config, update_dll_path and
\* update_game_profile calls, whatever the flag and the dll, the structured
\* file holds a per_game_profiles line and every such line is commented.
C16_FlagLineAlwaysCommented ==
    (call.op \in {"update_config", "update_dll_path", "update_game_profile"}
     /\ resp.raised = "none" /\ resp.success)
        => /\ toml.exists
           /\ FlagLines(toml.lines) # {}
           /\ \A i \in FlagLines(toml.lines) : toml.lines[i][2] = "commented"

----------------------------------------------------------------------------
(* Claims about the per-game write path and update_game_profile (Spec) *)

PerGameUpdate == call.op = "update_config" /\ PyTruthy(call.config["per_game_profiles"])

\* what get_current_active_profile answered: a name other than the default
DetectedByPrimary ==
    /\ ~call.env.detect.raises
    /\ call.env.detect.primary # <<>>
    /\ call.env.detect.primary[1] \notin {"", DEFAULT_PROFILE}

\* C12: in a per-game update_config whose detector returns a name P other
\* than the default, the written file holds profile P with every persisted
\* per-profile field equal to the incoming settings, whether or not P had a
\* block in the file before.
C12_DetectedProfileReceivesSettings ==
    (PerGameUpdate /\ DetectedByPrimary)
        => /\ resp.raised = "none" /\ resp.success
           /\ call.env.detect.primary[1] \in ProfileNames(PostProfiles)
           /\ SameProfile(ProfileOf(PostProfiles, call.env.detect.primary[1]), call.config)

\* the profile the call selected as active, as a set: empty when the file
\* did not exist, the detection raised or nothing was found
ActiveSelected ==
    IF ~call.pre.toml.exists \/ call.env.detect.raises THEN {}
    ELSE Range(select_active_profile(call.env.detect, PreProfiles))

\* C13: a per-game update_config leaves every profile of the file other than
\* the default profile and the active profile present, with all persisted
\* values unchanged.
C13_UnrelatedProfilesUnchanged ==
    (PerGameUpdate /\ resp.raised = "none" /\ resp.success)
        => \A n \in ProfileNames(PreProfiles) \ ({DEFAULT_PROFILE} \cup ActiveSelected) :
              /\ n \in ProfileNames(PostProfiles)
              /\ SameProfile(ProfileOf(PostProfiles, n), ProfileOf(PreProfiles, n))

\* what getConfig reports immediately before the call
ConfigBefore == get_config(call.pre.toml, call.pre.script, call.env).config

\* C15: when update_game_profile(id, fields) omits one of the five required
\* fields, the profile written for id holds for that field the value getConfig
\* reported immediately before the call.
C15_OmittedFieldsTakeCurrentValues ==
    (call.op = "update_game_profile" /\ resp.raised = "none" /\ resp.success)
        => /\ call.game_name \in ProfileNames(PostProfiles)
           /\ \A f \in Range(REQUIRED_KEYS) \ DOMAIN call.config :
                 ProfileOf(PostProfiles, call.game_name)[f] = ConfigBefore[f]

\* the known non-default profiles that the .exe rows of the process table
\* name: comm ends in .exe and its sanitized form is a profile of the file
ExeNamedProfiles ==
    { ExeProfileName(call.env.detect.running.processes[i].comm) :
        i \in { j \in DOMAIN call.env.detect.running.processes :
                  EndsWithExe(call.env.detect.running.processes[j].comm) } }
    \cap (ProfileNames(PreProfiles) \ {DEFAULT_PROFILE})

\* the primary detection and the LSFG_PROCESS fallback both found nothing
NothingBeforeExeFallback ==
    /\ call.pre.toml.exists /\ ~call.env.detect.raises
    /\ (call.env.detect.primary = <<>>
        \/ call.env.detect.primary[1] \notin ProfileNames(PreProfiles))
    /\ lsfg_fallback(call.env.detect.running.lsfg_processes, 1, PreProfiles) = <<>>

\* C19: when the earlier strategies find nothing and the process table holds
\* a process N.exe whose sanitized name is a known non-default profile P, P
\* receives the incoming settings.
C19_ExeFallbackSelectsProfile ==
    (PerGameUpdate /\ NothingBeforeExeFallback /\ ExeNamedProfiles # {})
        => /\ resp.raised = "none" /\ resp.success
           /\ \E n \in ExeNamedProfiles :
                 /\ n \in ProfileNames(PostProfiles)
                 /\ SameProfile(ProfileOf(PostProfiles, n), call.config)

----------------------------------------------------------------------------
(* get_config over structured files and launch scripts of every kind *)

\* a structured file that carries script-only keys in its default profile
TomlWithScriptKeys ==
    <<KV("version", "bare", "1"), Blank,
      Header("[global]"), KV("dll", "dq", "/games/Lossless.dll"),
      PgpLine("commented", "false"), Blank,
      Header("[[game]]"), KV("exe", "dq", DEFAULT_PROFILE),
      KV("multiplier", "bare", "3"),
      KV("dxvk_frame_rate", "bare", "30"),
      KV("enable_wow64", "bare", "true"),
      KV("disable_steamdeck_mode", "bare", "true")>>

\* the structured files get_config may find: none, files the serializers
\* wrote, files edited by hand
ReadTomls ==
    { NoFile, File(HandFile), File(TomlWithScriptKeys), File(<<>>),
      File(generate_toml_content(
               Config("/games/Lossless.dll", 4, 10, TRUE, FALSE, "immediate", 90, FALSE, TRUE, FALSE))),
      File(generate_per_game_toml_content(
               Config("", 2, 5, FALSE, TRUE, "mailbox", 0, FALSE, FALSE, TRUE), <<>>)) }

\* the launch scripts get_config may find: none, scripts the service wrote,
\* scripts edited by hand
ReadScripts ==
    { NoFile, File(<<Sh("#!/bin/bash"), Sh("exec $@")>>),
      File(generate_script_content(
               Config("", 1, 8, TRUE, FALSE, "fifo", 90, TRUE, FALSE, FALSE))),
      File(generate_script_content(
               Config("", 1, 8, TRUE, FALSE, "fifo", 0, FALSE, TRUE, TRUE))),
      File(<<Export("DXVK_FRAME_RATE", "60"), Export("multiplier", "4"),
             Export("PROTON_USE_WOW64", "0"), Sh("exec $@")>>),
      File(<<Export("DXVK_FRAME_RATE", "abc"), Export("SteamDeck", "1")>>) }

\* tomlRead "decode": the bytes of the structured file are not valid UTF-8
ReadEnvs ==
    { [OkEnv EXCEPT !.tomlRead = r, !.dll = d] :
        r \in {"ok", "decode"},
        d \in {Dll(FALSE, FALSE, PNone), Dll(FALSE, TRUE, PStr("/steam/Lossless.dll"))} }

InitRead ==
    /\ toml \in ReadTomls
    /\ script \in ReadScripts
    /\ resp = NoResp
    /\ call = NoCall
    /\ calls = 0
    /\ pure = NoPure

NextRead == \E e \in ReadEnvs : GetConfig(e)

SpecRead == InitRead /\ [][NextRead]_vars

Agree(a, b, fields) == \A f \in fields : a[f] = b[f]

\* C14: the persisted fields and per_game_profiles that get_config returns
\* are the same for every launch script, and the three script-only fields it
\* returns are the same for every structured-file content.
C14_FilesDoNotInterfere ==
    (call.op = "get_config" /\ resp.success /\ resp.hasConfig)
        => /\ \A s \in ReadScripts :
                 Agree(resp.config, get_config(call.pre.toml, s, call.env).config,
                       Range(CONFIG_SCHEMA) \cup Range(PER_GAME_FIELDS))
           /\ \A t \in ReadTomls \ {NoFile} : \A r \in {"ok", "decode"} :
                 Agree(resp.config,
                       get_config(t, call.pre.script, [call.env EXCEPT !.tomlRead = r]).config,
                       Range(SCRIPT_ONLY_FIELDS))

----------------------------------------------------------------------------
(* process_detection.py: get_current_active_profile.  One entry of /proc   *)
(* is a record: owner ("user" when stat prints the name held by USER,     *)
(* "other", or "fail" when stat fails), maps                               *)
(* ("vulkan", "plain", "missing", or "fail" when the read fails), comm and *)
(* environ ("ok", "missing", "fail"), lsfg the values of the LSFG_PROCESS= *)
(* entries of the environment block, in order.                             *)

Proc(owner, maps, comm, environ, lsfg) ==
    [owner |-> owner, maps |-> maps, comm |-> comm, environ |-> environ, lsfg |-> lsfg]

\* the first loop: the entries of the invoking user whose maps mention
\* vulkan and whose comm could be read, in scan order
RECURSIVE vulkan_processes(_, _)
vulkan_processes(procs, i) ==
    IF i > Len(procs) THEN <<>>
    ELSE (IF procs[i].owner = "user" /\ procs[i].maps = "vulkan" /\ procs[i].comm = "ok"
          THEN <<procs[i]>> ELSE <<>>)
         \o vulkan_processes(procs, i + 1)

\* a scan of the LSFG_PROCESS entries that returns the first one whatever it is
first_profile_any(values, j) ==
    IF j > Len(values) THEN <<>> ELSE <<values[j]>>

\* the loop over the environment entries of one process: the first value that
\* is neither empty nor the default profile, <<>> when there is none
RECURSIVE first_profile_in(_, _)
first_profile_in(values, j) ==
    IF j > Len(values) THEN <<>>
    ELSE IF values[j] # "" /\ values[j] # DEFAULT_PROFILE THEN <<values[j]>>
    ELSE first_profile_in(values, j + 1)

\* a second loop that gives up at the first environment it cannot read
RECURSIVE scan_environments_aborting(_, _)
scan_environments_aborting(vulkan, i) ==
    IF i > Len(vulkan) THEN <<>>
    ELSE IF vulkan[i].environ = "fail" THEN <<>>
    ELSE LET found == IF vulkan[i].environ = "ok"
                      THEN first_profile_in(vulkan[i].lsfg, 1) ELSE <<>>
         IN  IF found # <<>> THEN found
             ELSE scan_environments_aborting(vulkan, i + 1)

\* the second loop: the first profile found in the environments of the
\* Vulkan processes; an environment that is missing or unreadable is skipped
RECURSIVE scan_environments(_, _)
scan_environments(vulkan, i) ==
    IF i > Len(vulkan) THEN <<>>
    ELSE LET found == IF vulkan[i].environ = "ok"
                      THEN first_profile_in(vulkan[i].lsfg, 1) ELSE <<>>
         IN  IF found # <<>> THEN found
             ELSE scan_environments(vulkan, i + 1)

\* get_current_active_profile: <<name>> or <<>> for None; an exception
\* outside the per-process handlers (the enumeration of /proc) gives None
get_current_active_profile(scan) ==
    IF scan.enumerate # "ok" THEN <<>>
    ELSE scan_environments(vulkan_processes(scan.procs, 1), 1)

MaxProcs == 3

\* the kinds of /proc entries
ProcKinds ==
    { Proc("user", "vulkan", "ok", "ok", <<"game-a">>),
      Proc("user", "vulkan", "ok", "ok", <<"game-b">>),
      Proc("user", "vulkan", "ok", "ok", <<DEFAULT_PROFILE>>),
      Proc("user", "vulkan", "ok", "ok", <<"", DEFAULT_PROFILE, "game-b">>),
      Proc("user", "vulkan", "ok", "ok", <<>>),
      Proc("other", "vulkan", "ok", "ok", <<"game-b">>),
      Proc("user", "plain", "ok", "ok", <<"game-b">>),
      Proc("fail", "vulkan", "ok", "ok", <<"game-b">>),
      Proc("user", "fail", "ok", "ok", <<"game-b">>),
      Proc("user", "vulkan", "fail", "ok", <<"game-b">>),
      Proc("user", "vulkan", "ok", "fail", <<"game-b">>),
      Proc("user", "vulkan", "missing", "missing", <<"game-b">>) }

ProcLists == UNION { [1..n -> ProcKinds] : n \in 0..MaxProcs }

InitDetect ==
    /\ toml = NoFile /\ script = NoFile
    /\ resp = NoResp /\ call = NoCall /\ calls = 0
    /\ \E procs \in ProcLists, e \in {"ok", "OSError"} :
          pure = [fn |-> "detect", stage |-> "input",
                  scan |-> [procs |-> procs, enumerate |-> e], out |-> <<>>]

DetectProfile ==
    /\ pure.fn = "detect" /\ pure.stage = "input"
    /\ pure' = [pure EXCEPT !.stage = "scanned",
                            !.out = get_current_active_profile(pure.scan)]
    /\ UNCHANGED <<toml, script, resp, call, calls>>

NextDetect == DetectProfile

SpecDetect == InitDetect /\ [][NextDetect]_vars

\* every read of the entry succeeds
Readable(p) ==
    p.owner # "fail" /\ p.maps \in {"vulkan", "plain"} /\ p.comm = "ok" /\ p.environ = "ok"

\* the LSFG_PROCESS values of an entry that name a non-default profile
ProfileValues(p) == { j \in DOMAIN p.lsfg : p.lsfg[j] \notin {"", DEFAULT_PROFILE} }

\* owned by the user, maps mention Vulkan, a non-default profile in its environment
Eligible(p) == p.owner = "user" /\ p.maps = "vulkan" /\ ProfileValues(p) # {}

Least(S) == CHOOSE x \in S : \A y \in S : x <= y

\* the profile of the first eligible entry in scan order
FirstEligibleProfile(procs) ==
    LET E == { i \in DOMAIN procs : Eligible(procs[i]) }
    IN  IF E = {} THEN <<>>
        ELSE <<procs[Least(E)].lsfg[Least(ProfileValues(procs[Least(E)]))]>>

Scanned == pure.fn = "detect" /\ pure.stage = "scanned"

\* C17: get_current_active_profile returns the LSFG_PROCESS value of the
\* first process in scan order that the user owns, whose maps mention Vulkan
\* and whose environment holds a non-empty, non-default LSFG_PROCESS; None
\* when there is none; never the default name nor the empty string.
C17_FirstNonDefaultProfile ==
    Scanned =>
        /\ pure.out # <<DEFAULT_PROFILE>> /\ pure.out # <<"">>
        /\ (pure.scan.enumerate = "ok" /\ \A i \in DOMAIN pure.scan.procs : Readable(pure.scan.procs[i]))
              => pure.out = FirstEligibleProfile(pure.scan.procs)

\* C17 witness: the first entries hold the default name or belong to another
\* user, a later one names a game, and that game is returned
C17_Witness ==
    /\ Scanned /\ pure.scan.enumerate = "ok"
    /\ Len(pure.scan.procs) = 3
    /\ \A i \in DOMAIN pure.scan.procs : Readable(pure.scan.procs[i])
    /\ pure.scan.procs[1].lsfg = <<DEFAULT_PROFILE>>
    /\ pure.scan.procs[2].owner = "other"
    /\ pure.scan.procs[3].lsfg = <<"", DEFAULT_PROFILE, "game-b">>
    /\ pure.scan.procs[3].owner = "user" /\ pure.scan.procs[3].maps = "vulkan"
    /\ pure.out = <<"game-b">>

\* C18: a process whose owner, maps, comm or environ cannot be read changes
\* nothing: the result is the result of the scan over the other processes.
C18_FailingProcessIsSkipped ==
    (Scanned /\ pure.scan.enumerate = "ok")
        => pure.out = get_current_active_profile(
                          [pure.scan EXCEPT !.procs = SelectSeq(pure.scan.procs, Readable)])

\* C18 witness: an entry whose environment cannot be read precedes the entry
\* that names the game, and the game is still found
C18_Witness ==
    /\ Scanned /\ pure.scan.enumerate = "ok"
    /\ Len(pure.scan.procs) >= 2
    /\ pure.scan.procs[1] = Proc("user", "vulkan", "ok", "fail", <<"game-b">>)
    /\ pure.scan.procs[2] = Proc("user", "vulkan", "ok", "ok", <<"game-a">>)
    /\ pure.out = <<"game-a">>

----------------------------------------------------------------------------
(* config_schema.py: the per_game_profiles line in both parsers *)

MaxLines == 3

\* the lines a structured file is drawn from: section headers, field lines
\* and per_game_profiles lines in both forms with several value words
FlagAlphabet ==
    { <<"header", "[global]">>, <<"header", "[[game]]">>, <<"header", "[other]">>,
      <<"kv", "exe", "dq", DEFAULT_PROFILE>>, <<"kv", "exe", "dq", "game-a">>,
      <<"kv", "multiplier", "bare", "3">>, <<"kv", "dll", "dq", "/games/Lossless.dll">>,
      <<"pgp", "commented", "true">>, <<"pgp", "plain", "yes">>,
      <<"pgp", "commented", "false">>, <<"pgp", "plain", "off">> }

FlagTexts == UNION { [1..n -> FlagAlphabet] : n \in 0..MaxLines }

InitFlag ==
    /\ toml = NoFile
    /\ script = NoFile
    /\ resp = NoResp
    /\ call = NoCall
    /\ calls = 0
    /\ \E text \in FlagTexts :
          pure = [fn |-> "flag", stage |-> "input", text |-> text,
                  single |-> get_defaults, multi |-> parse_per_game_toml_content(<<>>)]

\* both parsers applied to the same text
ParseBoth ==
    /\ pure.fn = "flag"
    /\ pure.stage = "input"
    /\ pure' = [pure EXCEPT !.stage = "parsed",
                            !.single = parse_toml_content(pure.text),
                            !.multi = parse_per_game_toml_content(pure.text)]
    /\ UNCHANGED <<toml, script, resp, call, calls>>

NextFlag == ParseBoth

SpecFlag == InitFlag /\ [][NextFlag]_vars

\* the value words the flag line reads as true
FlagTruth(x) == \E w \in {"true", "1", "yes", "on"} : Lower(x) = w

\* what the last per_game_profiles line of a text says; FALSE without one
LastFlagSays(text) ==
    IF FlagLines(text) = {} THEN FALSE
    ELSE FlagTruth(text[CHOOSE i \in FlagLines(text) :
                            \A j \in FlagLines(text) : j <= i][3])

\* the text with its per_game_profiles lines taken out
WithoutFlagLines(text) == SelectSeq(text, LAMBDA l : l[1] # "pgp")

OtherFields == (DOMAIN get_defaults) \ {"per_game_profiles"}

\* C20: in both parsers the parsed per_game_profiles is what the last
\* per_game_profiles line of the text says, commented or not and in whichever
\* section it stands, and is false when the text has no such line; the flag
\* lines change no other field and no profile, since the text without them
\* parses to the same other fields and the same profiles.
C20_FlagDeterminedByLastLine ==
    (pure.fn = "flag" /\ pure.stage = "parsed") =>
        LET bare == WithoutFlagLines(pure.text)
            says == PBool(LastFlagSays(pure.text))
        IN /\ pure.single["per_game_profiles"] = says
           /\ pure.multi.global_config["per_game_profiles"] = says
           /\ \A f \in OtherFields :
                 /\ pure.single[f] = parse_toml_content(bare)[f]
                 /\ pure.multi.global_config[f]
                        = parse_per_game_toml_content(bare).global_config[f]
           /\ pure.multi.game_profiles = parse_per_game_toml_content(bare).game_profiles

\* a true flag line written plainly with the word yes stands between a
\* section header and a field line of that section, and the field is read
C20_Witness ==
    /\ pure.fn = "flag" /\ pure.stage = "parsed"
    /\ pure.text = << <<"header", "[global]">>, <<"pgp", "plain", "yes">>,
                      <<"kv", "dll", "dq", "/games/Lossless.dll">> >>
    /\ pure.single["per_game_profiles"] = PBool(TRUE)
    /\ pure.single["dll"] = PStr("/games/Lossless.dll")
    /\ pure.multi.global_config["per_game_profiles"] = PBool(TRUE)

----------------------------------------------------------------------------
(* config_schema.py: both parsers over files made of sections *)

MaxBlocks == 3

\* the pieces a structured file is put together from: lines without a
\* header, [global] and unknown sections, and [[game]] blocks with the exe
\* line first, last, twice, empty or missing, with values that convert and
\* values that do not, and with the boolean spellings the parsers read
Segments ==
    { << <<"kv", "multiplier", "bare", "4">>, <<"kv", "dll", "dq", "/stray.dll">> >>,
      << <<"header", "[global]">>, <<"kv", "dll", "dq", "/games/Lossless.dll">>,
         <<"kv", "multiplier", "bare", "4">> >>,
      << <<"header", "[other]">>, <<"kv", "exe", "dq", "game-a">>,
         <<"kv", "multiplier", "bare", "4">>, <<"kv", "dll", "dq", "/stray.dll">> >>,
      << <<"header", "[[game]]">>, <<"kv", "exe", "dq", "game-a">>,
         <<"kv", "multiplier", "bare", "3">>, <<"kv", "hdr_mode", "bare", "true">> >>,
      << <<"header", "[[game]]">>, <<"kv", "exe", "dq", "game-a">>,
         <<"kv", "flow_scale", "bare", "0.5">> >>,
      << <<"header", "[[game]]">>, <<"kv", "multiplier", "bare", "2">>,
         <<"kv", "exe", "dq", "game-b">> >>,
      << <<"header", "[[game]]">>, <<"kv", "exe", "dq", "game-a">>,
         <<"kv", "exe", "dq", "game-b">>, <<"kv", "multiplier", "bare", "4">> >>,
      << <<"header", "[[game]]">>, <<"kv", "exe", "dq", "">>,
         <<"kv", "multiplier", "bare", "3">> >>,
      << <<"header", "[[game]]">>, <<"kv", "multiplier", "bare", "3">> >>,
      << <<"header", "[[game]]">>, <<"kv", "exe", "dq", "game-b">>,
         <<"kv", "multiplier", "bare", "3">>, <<"kv", "flow_scale", "bare", "0.5">>,
         <<"kv", "multiplier", "bare", "abc">> >>,
      << <<"header", "[[game]]">>, <<"kv", "exe", "dq", DEFAULT_PROFILE>>,
         <<"kv", "multiplier", "bare", "3">>, <<"kv", "flow_scale", "bare", "0.5">>,
         <<"kv", "multiplier", "bare", "abc">> >>,
      << <<"header", "[[game]]">>, <<"kv", "exe", "dq", DEFAULT_PROFILE>>,
         <<"kv", "multiplier", "bare", "2">>, <<"kv", "hdr_mode", "bare", "yes">> >>,
      << <<"header", "[[game]]">>, <<"kv", "hdr_mode", "bare", "true">>,
         <<"kv", "exe", "dq", DEFAULT_PROFILE>>,
         <<"kv", "performance_mode", "bare", "false">> >>,
      << <<"pgp", "commented", "true">> >> }

RECURSIVE Flatten(_, _)
Flatten(segs, i) == IF i > Len(segs) THEN <<>> ELSE segs[i] \o Flatten(segs, i + 1)

BlockTexts == { Flatten(segs, 1) : segs \in UNION { [1..n -> Segments] : n \in 0..MaxBlocks } }

InitBlocks ==
    /\ toml = NoFile /\ script = NoFile
    /\ resp = NoResp /\ call = NoCall /\ calls = 0
    /\ \E text \in BlockTexts :
          pure = [fn |-> "blocks", stage |-> "input", text |-> text,
                  single |-> get_defaults,
                  multi |-> parse_per_game_toml_content(<<>>)]

\* both parsers applied to the same file
ParseFile ==
    /\ pure.fn = "blocks" /\ pure.stage = "input"
    /\ pure' = [pure EXCEPT !.stage = "parsed",
                            !.single = parse_toml_content(pure.text),
                            !.multi = parse_per_game_toml_content(pure.text)]
    /\ UNCHANGED <<toml, script, resp, call, calls>>

NextBlocks == ParseFile

SpecBlocks == InitBlocks /\ [][NextBlocks]_vars

\* the section a header line opens runs to the line before the next header
HeaderLines(text) == { i \in DOMAIN text : text[i][1] = "header" }

SectionEnd(text, i) ==
    IF \E j \in HeaderLines(text) : j > i
    THEN (CHOOSE j \in HeaderLines(text) :
              j > i /\ \A k \in HeaderLines(text) : k > i => j <= k) - 1
    ELSE Len(text)

GameSections(text) == { i \in HeaderLines(text) : text[i][2] = "[[game]]" }

GlobalSections(text) == { i \in HeaderLines(text) : text[i][2] = "[global]" }

\* the key = value lines of the section opened at line i that set key
KeyLines(text, i, key) ==
    { j \in (i + 1)..SectionEnd(text, i) : text[j][1] = "kv" /\ text[j][2] = key }

Latest(S) == CHOOSE i \in S : \A j \in S : j <= i

\* the exe a block ends up with: that of its last exe line, "" without one
BlockExe(text, i) ==
    IF KeyLines(text, i, "exe") = {} THEN ""
    ELSE text[Latest(KeyLines(text, i, "exe"))][4]

BlocksNamed(text, name) == { i \in GameSections(text) : BlockExe(text, i) = name }

\* C21: parse_per_game_toml_content returns exactly one profile per
\* distinct non-empty exe among the [[game]] blocks, holding for every field
\* what the last block with that exe says (the last line of the field in
\* that block converted, the schema default without such a line); lines
\* before any header or under an unknown header reach no profile, and the
\* global dll is the last dll line of the [global] sections only.
C21_OneProfilePerExe ==
    (pure.fn = "blocks" /\ pure.stage = "parsed") =>
        LET text == pure.text
            profiles == pure.multi.game_profiles
            names == { BlockExe(text, i) : i \in GameSections(text) } \ {""}
            dlls == UNION { KeyLines(text, i, "dll") : i \in GlobalSections(text) }
        IN /\ ProfileNames(profiles) = names
           /\ Len(profiles) = Cardinality(names)
           /\ \A name \in names :
                 LET b == Latest(BlocksNamed(text, name))
                 IN \A f \in DOMAIN get_defaults :
                       ProfileOf(profiles, name)[f] =
                          IF f \in Range(CONFIG_SCHEMA) /\ KeyLines(text, b, f) # {}
                          THEN convert_per_game(f, text[Latest(KeyLines(text, b, f))][4])
                          ELSE field_default(f)
           /\ pure.multi.global_config["dll"] =
                 IF dlls = {} THEN field_default("dll") ELSE PStr(text[Latest(dlls)][4])
           /\ \A f \in DOMAIN get_defaults :
                 f \notin {"dll", "per_game_profiles"}
                    => pure.multi.global_config[f] = field_default(f)

\* two blocks carry the exe game-a with different fields, an unknown
\* section with an exe and a multiplier line stands between them, and the
\* profile read is the one of the later block
C21_Witness ==
    /\ pure.fn = "blocks" /\ pure.stage = "parsed"
    /\ Cardinality(BlocksNamed(pure.text, "game-a")) = 2
    /\ \E i \in HeaderLines(pure.text) : pure.text[i][2] = "[other]"
    /\ ProfileNames(pure.multi.game_profiles) = {"game-a"}
    /\ ProfileOf(pure.multi.game_profiles, "game-a")["flow_scale"] = PFloat(5)
    /\ ProfileOf(pure.multi.game_profiles, "game-a")["multiplier"] = PInt(1)

\* int(value) or float(value) raises ValueError on the text
Unconvertible(f, x) ==
    \/ field_type(f) = "integer" /\ ~IsIntText(x)
    \/ field_type(f) = "float" /\ ~IsFloatText(x)

\* the fields of the block opened at line i whose last line does not convert
FailedFields(text, i) ==
    { f \in Range(CONFIG_SCHEMA) :
         /\ KeyLines(text, i, f) # {}
         /\ Unconvertible(f, text[Latest(KeyLines(text, i, f))][4]) }

\* the block's exe line stands before its field lines
ExeLineFirst(text, i) ==
    /\ KeyLines(text, i, "exe") # {}
    /\ \A f \in Range(CONFIG_SCHEMA) : \A j \in KeyLines(text, i, f) :
          \A e \in KeyLines(text, i, "exe") : e < j

\* C22: in both parses a field of a game block whose line does not convert
\* to the field's type is at its schema default in the parsed record, also
\* when an earlier line of the block had set it (the per-profile parse for
\* the profile of the block, the single-profile parse for the one block of
\* the default profile).
C22_UnconvertibleLeavesDefault ==
    (pure.fn = "blocks" /\ pure.stage = "parsed") =>
        \A b \in GameSections(pure.text) : \A f \in FailedFields(pure.text, b) :
            LET name == BlockExe(pure.text, b)
            IN /\ (name # "" /\ b = Latest(BlocksNamed(pure.text, name)))
                     => ProfileOf(pure.multi.game_profiles, name)[f] = field_default(f)
               /\ (name = DEFAULT_PROFILE /\ BlocksNamed(pure.text, name) = {b}
                   /\ ExeLineFirst(pure.text, b))
                     => pure.single[f] = field_default(f)

----------------------------------------------------------------------------
(* configuration.py: the generated launch script and its execution *)

\* typed configurations: both modes, both values of the two switches, and
\* frame rates below, at and above zero
ScriptConfigs ==
    { [get_defaults EXCEPT !["per_game_profiles"] = PBool(pgp),
                           !["enable_wow64"] = PBool(w),
                           !["disable_steamdeck_mode"] = PBool(sd),
                           !["dxvk_frame_rate"] = PInt(fr)] :
        pgp \in BOOLEAN, w \in BOOLEAN, sd \in BOOLEAN, fr \in {-1, 0, 60, 90} }

\* the commands bash runs from line i on: branch is "top" outside the
\* if, "then" or "else" inside it; taken says whether the branch is the
\* one the test selected; comments and empty lines run nothing
RECURSIVE run_script(_, _, _, _)
run_script(lines, i, branch, isExe) ==
    IF i > Len(lines) THEN <<>>
    ELSE LET line == lines[i]
             taken == \/ branch = "top"
                      \/ branch = "then" /\ isExe
                      \/ branch = "else" /\ ~isExe
         IN CASE line = Sh("if [[ $game_exe == *.exe ]]; then") ->
                    run_script(lines, i + 1, "then", isExe)
              [] line = Sh("else") -> run_script(lines, i + 1, "else", isExe)
              [] line = Sh("fi") -> run_script(lines, i + 1, "top", isExe)
              [] line = Sh("exec $@") /\ taken -> <<line>>
              [] OTHER ->
                    (IF taken /\ line # Sh("") /\ ~(line[1] = "sh" /\ line[2] # ""
                                                      /\ SubSeq(line[2], 1, 1) = "#")
                     THEN <<line>> ELSE <<>>)
                    \o run_script(lines, i + 1, branch, isExe)

InitScript ==
    /\ toml = NoFile /\ script = NoFile
    /\ resp = NoResp /\ call = NoCall /\ calls = 0
    /\ \E config \in ScriptConfigs :
          pure = [fn |-> "script", stage |-> "input", config |-> config,
                  lines |-> <<>>, isExe |-> FALSE, ran |-> <<>>]

GenerateScript ==
    /\ pure.fn = "script" /\ pure.stage = "input"
    /\ pure' = [pure EXCEPT !.stage = "generated",
                            !.lines = generate_script_content(pure.config)]
    /\ UNCHANGED <<toml, script, resp, call, calls>>

\* the script is launched with a command whose basename ends in .exe or not
LaunchScript ==
    /\ pure.fn = "script" /\ pure.stage = "generated"
    /\ \E isExe \in BOOLEAN :
          pure' = [pure EXCEPT !.stage = "launched", !.isExe = isExe,
                               !.ran = run_script(pure.lines, 1, "top", isExe)]
    /\ UNCHANGED <<toml, script, resp, call, calls>>

NextScript == GenerateScript \/ LaunchScript

SpecScript == InitScript /\ [][NextScript]_vars

ExportsOf(lines, name) ==
    { i \in DOMAIN lines : lines[i][1] = "export" /\ lines[i][2] = name }

\* the script holds the export line name=value once, or no export of name
HoldsExactlyWhen(lines, name, value, cond) ==
    IF cond
    THEN /\ Cardinality(ExportsOf(lines, name)) = 1
         /\ \A i \in ExportsOf(lines, name) : lines[i][3] = value
    ELSE ExportsOf(lines, name) = {}

\* C23: the generated script holds export PROTON_USE_WOW64=1 exactly when
\* enable_wow64 is truthy, export SteamDeck=0 exactly when
\* disable_steamdeck_mode is truthy and export DXVK_FRAME_RATE=n exactly when
\* dxvk_frame_rate = n > 0; on every execution path it exports LSFG_PROCESS
\* once (the default identifier in global mode and for a command that is no
\* .exe, the sanitized basename for an .exe in per-game mode), and exec "$@"
\* is the last command run, after every export.
C23_ScriptExports ==
    (pure.fn = "script" /\ pure.stage \in {"generated", "launched"}) =>
        LET c == pure.config
            fr == c["dxvk_frame_rate"].n
        IN /\ HoldsExactlyWhen(pure.lines, "PROTON_USE_WOW64", "1", c["enable_wow64"].n = 1)
           /\ HoldsExactlyWhen(pure.lines, "SteamDeck", "0", c["disable_steamdeck_mode"].n = 1)
           /\ HoldsExactlyWhen(pure.lines, "DXVK_FRAME_RATE", IntStr(fr), fr > 0)
           /\ pure.lines # <<>> /\ pure.lines[Len(pure.lines)] = Sh("exec $@")
           /\ pure.stage = "launched" =>
                 /\ HoldsExactlyWhen(pure.ran, "LSFG_PROCESS",
                        IF c["per_game_profiles"].n = 1 /\ pure.isExe
                        THEN "$profile_name" ELSE DEFAULT_PROFILE, TRUE)
                 /\ (c["per_game_profiles"].n = 1 /\ pure.isExe) =>
                        \E i \in DOMAIN pure.ran :
                           /\ pure.ran[i] = Sh("profile_name=$(sanitize ${game_exe%.exe})")
                           /\ \A j \in ExportsOf(pure.ran, "LSFG_PROCESS") : i < j
                 /\ \A n \in {"PROTON_USE_WOW64", "SteamDeck", "DXVK_FRAME_RATE"} :
                       Cardinality(ExportsOf(pure.ran, n)) = Cardinality(ExportsOf(pure.lines, n))
                 /\ pure.ran[Len(pure.ran)] = Sh("exec $@")
                 /\ \A i \in DOMAIN pure.ran :
                       pure.ran[i][1] = "export" => i < Len(pure.ran)

\* a per-game script with all three optional exports is launched with an
\* .exe command
C23_Witness ==
    /\ pure.fn = "script" /\ pure.stage = "launched" /\ pure.isExe
    /\ pure.config["per_game_profiles"].n = 1
    /\ pure.config["dxvk_frame_rate"].n = 60
    /\ ExportsOf(pure.ran, "PROTON_USE_WOW64") # {}
    /\ ExportsOf(pure.ran, "SteamDeck") # {}
    /\ \E i \in ExportsOf(pure.ran, "LSFG_PROCESS") : pure.ran[i][3] = "$profile_name"

----------------------------------------------------------------------------
(* Claims about the order and the frame of the writes *)

ScriptEvents == {"script_written", "script_write_failed", "script_generate_failed"}

\* the generated script is the per-game one
PerGameScript(lines) ==
    \E i \in DOMAIN lines : lines[i] = Sh("if [[ $game_exe == *.exe ]]; then")

\* C24: in every update_config call the structured file is written before
\* the launch script is regenerated; the script that is written carries the
\* values of the configuration that was serialized into the structured file
\* (its mode is the flag of the file, its exports are the call's script-only
\* values, the file's dll is the call's dll); when the write of the
\* structured file fails the launch script is as it was.
C24_TomlBeforeScript ==
    call.op = "update_config" =>
        /\ \A j \in DOMAIN call.events :
              call.events[j] \in ScriptEvents =>
                 /\ \E i \in 1..(j - 1) : call.events[i] = "toml_written"
                 /\ toml.exists
        /\ "toml_failed" \in Events =>
              /\ script = call.pre.script
              /\ Events \cap ScriptEvents = {}
        /\ script # call.pre.script => "script_written" \in Events
        /\ "script_written" \in Events =>
              LET c == call.config
                  vals == parse_script_content(script.lines)
                  file == parse_toml_content(toml.lines)
              IN /\ PerGameScript(script.lines) = PyTruthy(c["per_game_profiles"])
                 /\ PerGameScript(script.lines) = PyTruthy(file["per_game_profiles"])
                 /\ file["dll"] = c["dll"]
                 /\ DictGet(vals, "enable_wow64", PBool(FALSE)) = PBool(PyTruthy(c["enable_wow64"]))
                 /\ DictGet(vals, "disable_steamdeck_mode", PBool(FALSE))
                       = PBool(PyTruthy(c["disable_steamdeck_mode"]))
                 /\ IF c["dxvk_frame_rate"].n > 0
                    THEN DictGet(vals, "dxvk_frame_rate", PNone) = c["dxvk_frame_rate"]
                    ELSE "dxvk_frame_rate" \notin DOMAIN vals

\* an update_config with a frame rate and the 32-bit switch wrote the
\* structured file and then a script different from the one before
C24_Witness ==
    /\ call.op = "update_config"
    /\ call.events = <<"toml_written", "script_written">>
    /\ script # call.pre.script /\ toml # call.pre.toml
    /\ call.config["dxvk_frame_rate"] = PInt(60)
    /\ PyTruthy(call.config["enable_wow64"])

\* what an immediately following get_config answers, with the files read
\* without error
ConfigAfter(d) == get_config(toml, script, [OkEnv EXCEPT !.dll = d])

\* C25: after a successful update_config(C), in either mode, an immediately
\* following get_config returns success with a config equal to C on all ten
\* fields, for every C of the declared types.
C25_UpdateThenGetRoundTrip ==
    (call.op = "update_config" /\ resp.raised = "none" /\ resp.success) =>
        \A d \in DllResults :
            /\ ConfigAfter(d).success
            /\ ConfigAfter(d).hasConfig
            /\ \A f \in Range(FULL_CONFIG_SCHEMA) :
                  ConfigAfter(d).config[f] = call.config[f]

\* the per_game_profiles flag a structured file holds; FALSE without a file
FlagIn(file) ==
    IF file.exists
    THEN parse_per_game_toml_content(file.lines).global_config["per_game_profiles"]
    ELSE PBool(FALSE)

\* C26: a successful update_dll_path changes only the dll: every game
\* profile of the structured file before the call is in the file afterwards
\* with unchanged persisted values, per_game_profiles keeps its value, and
\* the launch script is not modified.
C26_DllPathChangesOnlyDll ==
    (call.op = "update_dll_path" /\ resp.raised = "none" /\ resp.success) =>
        /\ \A n \in ProfileNames(PreProfiles) :
              /\ n \in ProfileNames(PostProfiles)
              /\ SameProfile(ProfileOf(PostProfiles, n), ProfileOf(PreProfiles, n))
        /\ FlagIn(toml) = FlagIn(call.pre.toml)
        /\ script = call.pre.script

\* C27: a successful update_game_profile, for any id and any fields, leaves
\* the script-only settings unchanged: get_config reports the same
\* dxvk_frame_rate, enable_wow64 and disable_steamdeck_mode immediately after
\* the call as immediately before it.
C27_GameProfileKeepsScriptSettings ==
    (call.op = "update_game_profile" /\ resp.raised = "none" /\ resp.success) =>
        \A f \in Range(SCRIPT_ONLY_FIELDS) :
            ConfigAfter(call.env.dll).config[f] = ConfigBefore[f]

\* C28: on every structured file parse_toml_content and
\* parse_per_game_toml_content agree: same dll, same per_game_profiles, and
\* the persisted fields of the first are those of the default profile of
\* the second (schema defaults when the file has no default profile).
C28_ParsersAgree ==
    (pure.fn = "blocks" /\ pure.stage = "parsed") =>
        LET profiles == pure.multi.game_profiles
        IN /\ pure.single["dll"] = pure.multi.global_config["dll"]
           /\ pure.single["per_game_profiles"] = pure.multi.global_config["per_game_profiles"]
           /\ \A f \in PROFILE_FIELDS :
                 pure.single[f] =
                    IF DEFAULT_PROFILE \in ProfileNames(profiles)
                    THEN ProfileOf(profiles, DEFAULT_PROFILE)[f]
                    ELSE field_default(f)

----------------------------------------------------------------------------
(* Two processes on the same files: the plugin's update_config in per-game *)
(* mode and the launch script's python3 -c ... update_game_profile.  Each  *)
(* reads the structured file, writes it, then writes the launch script;    *)
(* nothing locks the files.  pure holds each process's position and what   *)
(* it read.                                                                *)

RaceProfile == "game-c"

\* the settings the UI saves while the game starts
RaceArgs ==
    { Config("/games/Lossless.dll", m, 5, FALSE, TRUE, "mailbox", 60, TRUE, FALSE, TRUE) :
        m \in {2, 3} }

\* what the active-profile detection of update_config answers meanwhile
RaceDetects == { NoDetect, Detect(FALSE, <<RaceProfile>>, Running(<<>>, <<>>)) }

\* the files before: written by an earlier per-game update_config, or the
\* structured file edited by hand with the script of that update
RaceFiles ==
    LET saved == update_config(
                     Config("/games/Lossless.dll", 4, 10, TRUE, FALSE, "immediate",
                            90, FALSE, TRUE, TRUE),
                     NoFile, NoFile, OkEnv)
    IN  { [toml |-> saved.toml, script |-> saved.script],
          [toml |-> File(HandFile), script |-> saved.script] }

InitRace ==
    /\ \E f \in RaceFiles : toml = f.toml /\ script = f.script
    /\ resp = NoResp /\ call = NoCall /\ calls = 0
    /\ \E c \in RaceArgs, d \in RaceDetects :
          pure = [fn |-> "race", u |-> "start", g |-> "start",
                  config |-> c, env |-> [OkEnv EXCEPT !.detect = d],
                  uSeen |-> NoFile, gSeen |-> NoFile, fields |-> EmptyDict,
                  uEarly |-> FALSE, gEarly |-> FALSE]

Written(pc) == pc \in {"wrote", "done"}

\* update_config reads the structured file
UpdateReads ==
    /\ pure.fn = "race" /\ pure.u = "start"
    /\ pure' = [pure EXCEPT !.u = "read", !.uSeen = toml,
                            !.uEarly = ~Written(pure.g)]
    /\ UNCHANGED <<toml, script, resp, call, calls>>

\* update_config writes the structured file it computed from what it read
UpdateWritesToml ==
    /\ pure.fn = "race" /\ pure.u = "read"
    /\ toml' = update_config(pure.config, pure.uSeen, script, pure.env).toml
    /\ pure' = [pure EXCEPT !.u = "wrote"]
    /\ UNCHANGED <<script, resp, call, calls>>

UpdateWritesScript ==
    /\ pure.fn = "race" /\ pure.u = "wrote"
    /\ script' = update_config(pure.config, pure.uSeen, script, pure.env).script
    /\ pure' = [pure EXCEPT !.u = "done"]
    /\ UNCHANGED <<toml, resp, call, calls>>

\* the launch script's python: current = service.get_config(), with
\* per_game_profiles set to True
ProfileGetsConfig ==
    /\ pure.fn = "race" /\ pure.g = "start"
    /\ get_config(toml, script, OkEnv).success
    /\ pure' = [pure EXCEPT !.g = "got",
                   !.fields = DictPut(get_config(toml, script, OkEnv).config,
                                      "per_game_profiles", PBool(TRUE))]
    /\ UNCHANGED <<toml, script, resp, call, calls>>

\* update_game_profile reads the structured file
ProfileReads ==
    /\ pure.fn = "race" /\ pure.g = "got"
    /\ pure' = [pure EXCEPT !.g = "read", !.gSeen = toml,
                            !.gEarly = ~Written(pure.u)]
    /\ UNCHANGED <<toml, script, resp, call, calls>>

ProfileWritesToml ==
    /\ pure.fn = "race" /\ pure.g = "read"
    /\ toml' = update_game_profile(RaceProfile, pure.fields, pure.gSeen, script, OkEnv).toml
    /\ pure' = [pure EXCEPT !.g = "wrote"]
    /\ UNCHANGED <<script, resp, call, calls>>

ProfileWritesScript ==
    /\ pure.fn = "race" /\ pure.g = "wrote"
    /\ script' = update_game_profile(RaceProfile, pure.fields, pure.gSeen, script, OkEnv).script
    /\ pure' = [pure EXCEPT !.g = "done"]
    /\ UNCHANGED <<toml, resp, call, calls>>

NextRace ==
    \/ UpdateReads \/ UpdateWritesToml \/ UpdateWritesScript
    \/ ProfileGetsConfig \/ ProfileReads \/ ProfileWritesToml \/ ProfileWritesScript

SpecRace == InitRace /\ [][NextRace]_vars

BothDone == pure.fn = "race" /\ pure.u = "done" /\ pure.g = "done"

\* both calls read the structured file before either wrote it
Overlapped == pure.uEarly /\ pure.gEarly

\* the file holds the created profile, and its default profile holds the
\* settings of the update_config
BothUpdatesKept ==
    /\ RaceProfile \in ProfileNames(ProfilesIn(toml))
    /\ DEFAULT_PROFILE \in ProfileNames(ProfilesIn(toml))
    /\ SameProfile(ProfileOf(ProfilesIn(toml), DEFAULT_PROFILE), pure.config)

\* C29: when the launch script's update_game_profile(C) and a per-game
\* update_config overlap so that both read the structured file before either
\* writes it, then after both have completed the file still holds profile C
\* and the default profile still holds the settings of that update_config.
C29_OverlapKeepsBothUpdates ==
    (BothDone /\ Overlapped) => BothUpdatesKept

----------------------------------------------------------------------------
(* Claims about the global-mode write path (Spec) *)

\* C30: a successful global-mode update_config (per_game_profiles false) on
\* a structured file that holds non-default game profiles keeps those
\* profiles, with unchanged persisted values, in the rewritten file.
C30_GlobalModeKeepsProfiles ==
    (/\ call.op = "update_config" /\ resp.raised = "none" /\ resp.success
     /\ ~PyTruthy(call.config["per_game_profiles"]))
        => \A n \in ProfileNames(PreProfiles) \ {DEFAULT_PROFILE} :
              /\ n \in ProfileNames(PostProfiles)
              /\ SameProfile(ProfileOf(PostProfiles, n), ProfileOf(PreProfiles, n))

====
